---- MODULE Spec2Model ----
(***************************************************************************)
(* Model of the COA validation pipeline (src/coa_data_validation.py):      *)
(* process_validation and the functions it calls; and of the loops of      *)
(* process_extraction (src/coa_data_extraction.py), process_ocr            *)
(* (src/coa_ocr.py) and upload_spreadsheet_in_batches                      *)
(* (src/coa_automation.py).                                                *)
(*                                                                         *)
(* Encoding of Python values                                               *)
(*   text           a sequence of one-character strings, <<"M","1">>       *)
(*   optional value None == <<>>, Some(v) == <<v>>   (JSON null, NaN)      *)
(*   product names, descriptions and entity codes are TLA+ strings: only   *)
(*   equality and the similarity table RatioTable read them.               *)
(*   a date is the number YYYYMMDD of its ISO string "YYYY-MM-DD": the     *)
(*   extraction prompt asks for ISO strings, whose order as strings (what  *)
(*   sort_values compares) is the order of these numbers.                  *)
(***************************************************************************)
EXTENDS Integers, Sequences, FiniteSets, TLC

VARIABLES
    pc,                   \* position in process_validation
    extracted_df,         \* rows of the "Extracted Data" sheet (input)
    order_df,             \* purchase-order registry (input)
    rm_df,                \* raw-material catalog (input)
    extracted_df3,        \* candidate rows after both explodes
    extracted_df4,        \* ... with the test values and general info
    merged_extracted_df2, \* ... after both registry joins, with similarities
    merged_extracted_df3, \* ... with the fallback match and rank1
    merged_extracted_df4, \* one winning row per file, final entity chosen
    rm_final,             \* assignments before the quality filter
    rm_final2,            \* assignments after filter and custom_rank
    rm_clean,             \* the export
    fbm_name,             \* find_best_match called on its own: product_name
    fbm_result,           \* ... and what it returned
    \* process_extraction
    ex_text_df,           \* rows of "Raw Data", each with its row of extracted_df
    ex_idx,               \* number of rows the loop has gone through
    batch_updates,        \* the pending batch: file names whose result waits
    extracted_sheet,      \* json_values cells of the "Extracted Data" sheet
    gpt_sent,             \* files sent to the model
    gpt_failed,           \* files on which the model call raised
    upload_failed,        \* files whose update_cell raised
    \* process_ocr
    text_df,              \* the combined table: sheet rows, then new ZIP files
    ocr_i,                \* the loop index i
    pending_updates,      \* pending sheet updates: <<row, text>>
    raw_sheet,            \* raw_text cells of the "Raw Data" sheet, by row
    ocr_tried,            \* rows whose file was opened for OCR
    ocr_done,             \* rows whose OCR text was computed
    \* upload_spreadsheet_in_batches
    upload_df,            \* the rows of the file
    batch_size,           \* the parameter batch_size
    batch_idx,            \* the loop index batch_idx
    batch_files           \* the batch files attempted so far

\* the variables of process_validation and find_best_match, pc apart
validation_vars ==
    <<extracted_df, order_df, rm_df, extracted_df3, extracted_df4,
      merged_extracted_df2, merged_extracted_df3, merged_extracted_df4,
      rm_final, rm_final2, rm_clean, fbm_name, fbm_result>>

extraction_vars ==
    <<ex_text_df, ex_idx, batch_updates, extracted_sheet, gpt_sent, gpt_failed,
      upload_failed>>

ocr_vars == <<text_df, ocr_i, pending_updates, raw_sheet, ocr_tried, ocr_done>>

upload_vars == <<upload_df, batch_size, batch_idx, batch_files>>

\* the variables of the programs that read and write the sheets
io_vars == <<extraction_vars, ocr_vars, upload_vars>>

vars == <<pc, validation_vars, io_vars>>

\* a program that is not running
ExtractionIdle ==
    /\ ex_text_df = <<>>
    /\ ex_idx = 0
    /\ batch_updates = <<>>
    /\ extracted_sheet = <<>>
    /\ gpt_sent = {}
    /\ gpt_failed = {}
    /\ upload_failed = {}

OcrIdle ==
    /\ text_df = <<>>
    /\ ocr_i = 0
    /\ pending_updates = <<>>
    /\ raw_sheet = <<>>
    /\ ocr_tried = {}
    /\ ocr_done = {}

UploadIdle ==
    /\ upload_df = <<>>
    /\ batch_size = 0
    /\ batch_idx = 0
    /\ batch_files = <<>>

ValidationIdle ==
    /\ extracted_df = <<>>
    /\ order_df = <<>>
    /\ rm_df = <<>>
    /\ extracted_df3 = <<>>
    /\ extracted_df4 = <<>>
    /\ merged_extracted_df2 = <<>>
    /\ merged_extracted_df3 = <<>>
    /\ merged_extracted_df4 = <<>>
    /\ rm_final = <<>>
    /\ rm_final2 = <<>>
    /\ rm_clean = <<>>
    /\ fbm_name = ""
    /\ fbm_result = <<>>

----------------------------------------------------------------------------
(* Optional values and Python scalars *)

None == <<>>
Some(v) == <<v>>
IsNone(o) == o = <<>>
NotNone(o) == o # <<>>
Val(o) == o[1]

\* A cell of an exploded column: None, a str, or the int sentinel 0.
\* s holds the characters of str(x).
PyNone == [t |-> "None", s |-> <<"N", "o", "n", "e">>]
PyStr(s) == [t |-> "str", s |-> s]
PyInt0 == [t |-> "int", s |-> <<"0">>]
PyStrOf(x) == x.s

----------------------------------------------------------------------------
(* Characters *)

Digits == {"0", "1", "2", "3", "4", "5", "6", "7", "8", "9"}
UpperCase == <<"A", "B", "C", "D", "E", "F", "G", "H", "I", "J", "K", "L", "M",
               "N", "O", "P", "Q", "R", "S", "T", "U", "V", "W", "X", "Y", "Z">>
LowerCase == <<"a", "b", "c", "d", "e", "f", "g", "h", "i", "j", "k", "l", "m",
               "n", "o", "p", "q", "r", "s", "t", "u", "v", "w", "x", "y", "z">>
Range(s) == {s[i] : i \in DOMAIN s}
Letters == Range(UpperCase) \cup Range(LowerCase)
WhiteSpace == {" ", "\t", "\n"}

\* \w of Python's re on str, for the ASCII characters of the model
IsWordChar(c) == c \in Digits \cup Letters \cup {"_"}

LowerChar(c) ==
    IF c \in Range(UpperCase)
    THEN LowerCase[CHOOSE i \in DOMAIN UpperCase : UpperCase[i] = c]
    ELSE c

\* str.lower()
Lower(s) == [i \in DOMAIN s |-> LowerChar(s[i])]

\* re.sub(r'\W+', '', s)
StripNonWord(s) == SelectSeq(s, IsWordChar)

IsNotSpace(c) == c \notin WhiteSpace
\* re.sub(r'\s+', '', s)
StripSpace(s) == SelectSeq(s, IsNotSpace)

Max(a, b) == IF a >= b THEN a ELSE b

----------------------------------------------------------------------------
(* Key extraction: M-numbers, lot keys, registry keys *)

\* re pattern M\d{4,6} matching at position i of s
MNumberAt(s, i) ==
    /\ i + 4 <= Len(s)
    /\ s[i] = "M"
    /\ \A k \in 1..4 : s[i + k] \in Digits

\* length of the (greedy) match of M\d{4,6} at position i
MNumberLen(s, i) ==
    1 + CHOOSE n \in 4..6 :
            /\ i + n <= Len(s)
            /\ \A k \in 1..n : s[i + k] \in Digits
            /\ (n = 6 \/ i + n = Len(s) \/ s[i + n + 1] \notin Digits)

HasMNumberFrom(s, p) == \E i \in p..Len(s) : MNumberAt(s, i)

FirstMNumberFrom(s, p) ==
    CHOOSE i \in p..Len(s) :
        MNumberAt(s, i) /\ \A j \in p..(i - 1) : ~MNumberAt(s, j)

\* re.findall(r"M\d{4,6}", s) scanning from position p
RECURSIVE FindAllMFrom(_, _)
FindAllMFrom(s, p) ==
    IF ~HasMNumberFrom(s, p) THEN <<>>
    ELSE LET i == FirstMNumberFrom(s, p)
             n == MNumberLen(s, i)
         IN  <<SubSeq(s, i, i + n - 1)>> \o FindAllMFrom(s, i + n)

\* list(dict.fromkeys(lst)): the distinct elements in first-seen order
RECURSIVE Unique(_)
Unique(lst) ==
    IF lst = <<>> THEN <<>>
    ELSE LET init == Unique(SubSeq(lst, 1, Len(lst) - 1))
             last == lst[Len(lst)]
         IN  IF last \in Range(init) THEN init ELSE Append(init, last)

\* clean_and_extract_lot(x): a str, or None
clean_and_extract_lot(x) ==
    LET cleaned == StripNonWord(PyStrOf(x))
    IN  IF HasMNumberFrom(cleaned, 1)
        THEN LET i == FirstMNumberFrom(cleaned, 1)
             IN  PyStr(SubSeq(cleaned, i, i + MNumberLen(cleaned, i) - 1))
        ELSE PyNone

\* filename_clean -> m_numbers: the distinct M-numbers, or the sentinel [0]
MNumbersOf(filename_clean) ==
    LET lst == Unique(FindAllMFrom(StripNonWord(filename_clean), 1))
    IN  IF lst # <<>> THEN [i \in DOMAIN lst |-> PyStr(lst[i])] ELSE <<PyInt0>>

\* col.str.lower().apply(lambda x: re.sub(r'\W+', '', str(x))):
\* .str.lower() yields NaN for a cell that is not a str, and str(NaN) is "nan"
CleanKey(x) ==
    IF x.t = "str" THEN StripNonWord(Lower(x.s)) ELSE <<"n", "a", "n">>

PathSeps == {"/"}

\* os.path.basename
Basename(s) ==
    IF \E i \in DOMAIN s : s[i] \in PathSeps
    THEN LET i == CHOOSE k \in DOMAIN s :
                      s[k] \in PathSeps /\ \A j \in (k + 1)..Len(s) : s[j] \notin PathSeps
         IN  SubSeq(s, i + 1, Len(s))
    ELSE s

\* os.path.splitext(b)[0] of a basename b: cut at the last dot, unless only
\* dots precede it
SplitextRoot(b) ==
    IF \E i \in DOMAIN b : b[i] = "." /\ \E j \in 1..(i - 1) : b[j] # "."
    THEN LET i == CHOOSE k \in DOMAIN b :
                      b[k] = "." /\ \A j \in (k + 1)..Len(b) : b[j] # "."
         IN  IF \E j \in 1..(i - 1) : b[j] # "." THEN SubSeq(b, 1, i - 1) ELSE b
    ELSE b

\* order_df['lot_number_order'] of a 'User Lot' cell (an optional text)
LotNumberOrder(userLot) ==
    IF IsNone(userLot) THEN PyNone
    ELSE PyStr(StripSpace(SplitextRoot(Basename(Val(userLot)))))

----------------------------------------------------------------------------
(* Regular expressions of the test-result extraction *)

DigitSeq == <<"0", "1", "2", "3", "4", "5", "6", "7", "8", "9">>
DigitVal(c) == (CHOOSE i \in DOMAIN DigitSeq : DigitSeq[i] = c) - 1

IsDigitAt(s, i) == i \in DOMAIN s /\ s[i] \in Digits

\* number of digits of s from position i on (0 when s[i] is no digit)
RECURSIVE DigitRun(_, _)
DigitRun(s, i) == IF IsDigitAt(s, i) THEN 1 + DigitRun(s, i + 1) ELSE 0

\* (?=\s*cfu) with re.IGNORECASE: after position e, white space and then "cfu"
RECURSIVE CfuFollows(_, _)
CfuFollows(s, e) ==
    IF e + 1 \in DOMAIN s /\ s[e + 1] \in WhiteSpace THEN CfuFollows(s, e + 1)
    ELSE /\ e + 3 <= Len(s)
         /\ Lower(SubSeq(s, e + 1, e + 3)) = <<"c", "f", "u">>

\* The matches of [\d]*\.?\d+ that start at position i, as <<a, d, b>>:
\* a leading digits, d = 1 when the dot is taken, b closing digits.
\* The regex engine tries them with a greatest first, then d = 1 before
\* d = 0, then b greatest first.
NumberMatchesAt(s, i) ==
    {m \in (0..DigitRun(s, i)) \X {0, 1} \X (1..Len(s)) :
        /\ m[2] = 1 => (i + m[1] \in DOMAIN s /\ s[i + m[1]] = ".")
        /\ m[2] = 1 => m[3] <= DigitRun(s, i + m[1] + 1)
        /\ m[2] = 0 => m[1] + m[3] <= DigitRun(s, i)}

MatchEnd(i, m) == i + m[1] + m[2] + m[3] - 1

\* m is tried before n by the backtracking engine
TriedBefore(m, n) ==
    \/ m[1] > n[1]
    \/ m[1] = n[1] /\ m[2] > n[2]
    \/ m[1] = n[1] /\ m[2] = n[2] /\ m[3] > n[3]

\* the matches at i that also satisfy the lookahead (when cfu is asked for)
GoodMatchesAt(s, i, cfu) ==
    {m \in NumberMatchesAt(s, i) : cfu => CfuFollows(s, MatchEnd(i, m))}

\* re.search: the least start position with a match, and there the match the
\* engine finds first; <<>> when there is none, else <<the matched text>>
NumberSearch(s, cfu) ==
    IF \A i \in DOMAIN s : GoodMatchesAt(s, i, cfu) = {} THEN None
    ELSE LET i == CHOOSE k \in DOMAIN s :
                      /\ GoodMatchesAt(s, k, cfu) # {}
                      /\ \A j \in 1..(k - 1) : GoodMatchesAt(s, j, cfu) = {}
             m == CHOOSE x \in GoodMatchesAt(s, i, cfu) :
                      \A y \in GoodMatchesAt(s, i, cfu) : y = x \/ TriedBefore(x, y)
         IN  Some(SubSeq(s, i, MatchEnd(i, m)))

\* value of a digit string, most significant digit first
RECURSIVE DigitsValue(_)
DigitsValue(ds) ==
    IF ds = <<>> THEN 0
    ELSE 10 * DigitsValue(SubSeq(ds, 1, Len(ds) - 1)) + DigitVal(ds[Len(ds)])

\* a float as the decimal m / 10^e with no closing zero in the fraction
RECURSIVE Normalize(_)
Normalize(f) ==
    IF f.e > 0 /\ f.m % 10 = 0 THEN Normalize([m |-> f.m \div 10, e |-> f.e - 1])
    ELSE f

IsDigitChar(c) == c \in Digits

\* float(text) of a match of [\d]*\.?\d+
Float(text) ==
    LET dot == IF \E i \in DOMAIN text : text[i] = "."
               THEN CHOOSE i \in DOMAIN text : text[i] = "."
               ELSE Len(text) + 1
    IN  Normalize([m |-> DigitsValue(SelectSeq(text, IsDigitChar)),
                   e |-> Max(Len(text) - dot, 0)])

Zero == [m |-> 0, e |-> 0]

\* literal w occurs in s at position i between two \b word boundaries
\* (every literal of the patterns starts and ends with a word character)
WordAt(s, w, i) ==
    /\ i + Len(w) - 1 <= Len(s)
    /\ SubSeq(s, i, i + Len(w) - 1) = w
    /\ (i = 1 \/ ~IsWordChar(s[i - 1]))
    /\ (i + Len(w) - 1 = Len(s) \/ ~IsWordChar(s[i + Len(w)]))

\* re.search(r'\b(w1|w2|...)\b', s)
WordSearch(words, s) == \E w \in words : \E i \in DOMAIN s : WordAt(s, w, i)

----------------------------------------------------------------------------
(* Test-result extraction *)

\* The alternatives of each pattern \b(...)\b, matched with re.IGNORECASE.
CHEM_PATTERNS ==
    "arsenic_ppm" :> {<<"a", "r", "s">>,
            <<"a", "r", "s", "e", "n", "i", "c">>,
            <<"a", "s", " ", "p", "p", "m">>,
            <<"a", "s", " ", "m", "g">>,
            <<"a", "s", " ", "c", "o", "n", "t", "e", "n", "t">>} @@
    "cadmium_ppm" :> {<<"c", "a", "d", "m", "i", "u", "m">>,
            <<"c", "d">>} @@
    "chromium_ppm" :> {<<"c", "h", "r", "o", "m", "i", "u", "m">>} @@
    "lead_ppm" :> {<<"l", "e", "a", "d">>,
            <<"p", "b">>} @@
    "mercury_ppm" :> {<<"m", "e", "r", "c", "u", "r", "y">>,
            <<"h", "g">>,
            <<"m", "e", "c", "u", "r", "y">>} @@
    "total_plate_count" :> {<<"p", "l", "a", "t", "e">>,
            <<"t", "p", "c">>,
            <<"a", "e", "r", "o", "b", "i", "c", " ", "c", "o", "u", "n", "t">>,
            <<"t", "o", "t", "a", "l", " ", "a", "e", "r", "o", "b", "i", "c">>,
            <<"t", "o", "t", "a", "l", " ", "c", "o", "u", "n", "t">>} @@
    "yeast_and_mold" :> {<<"y", "e", "a", "s", "t">>,
            <<"y", "e", "a", "s", "t", "e">>,
            <<"y", "e", "a", "s", "t", "s">>,
            <<"m", "o", "l", "d">>,
            <<"m", "o", "l", "d", "s">>,
            <<"m", "o", "u", "l", "d">>,
            <<"m", "o", "u", "l", "d", "s">>}

MICRO_PATTERNS ==
    "e_coli" :> {<<"c", "o", "l", "i">>} @@
    "salmonella" :> {<<"s", "a", "l", "m", "o", "n", "e", "l", "l", "a">>} @@
    "staphylococcus_aureus" :> {<<"a", "u", "r", "e", "u", "s">>,
            <<"s", "t", "a", "p", "h">>,
            <<"s", "t", "a", "p", "h", "y", "l", "o", "c", "o", "c", "c", "u", "s">>}

ChemFields == <<"arsenic_ppm", "cadmium_ppm", "chromium_ppm", "lead_ppm", "mercury_ppm", "total_plate_count", "yeast_and_mold">>
MicroFields == <<"e_coli", "salmonella", "staphylococcus_aureus">>

\* the qualitative markers of a non-detectable result
NegativeMarkers == {<<"n", "o", "t", " ", "d", "e", "t", "e", "c", "t", "e", "d">>,
                    <<"c", "o", "n", "f", "o", "r", "m">>,
                    <<"c", "o", "n", "f", "o", "r", "m", "s">>,
                    <<"n", "e", "g", "a", "t", "i", "v", "e">>,
                    <<"a", "b", "s", "e", "n", "t">>,
                    <<"n", "o", "n", "e">>}

\* A value of a JSON object's key: missing, null, or a string.
Absent == [t |-> "absent", s |-> <<>>]
Null == [t |-> "null", s |-> <<>>]
Str(s) == [t |-> "str", s |-> s]

\* dict.get(key, ''): the default for a missing key only
GetOrEmpty(v) == IF v.t = "absent" THEN Str(<<>>) ELSE v

\* The outcome of a Python call: a return value, or a raised exception.
Return(v) == [exc |-> FALSE, v |-> v]
Raise == [exc |-> TRUE, v |-> None]

\* FirstMatch taking the last matching item instead of the first
RECURSIVE MutLastMatch(_, _, _)
MutLastMatch(items, words, i) ==
    IF i > Len(items) THEN 0
    ELSE LET test == GetOrEmpty(items[i].test)
             rest == MutLastMatch(items, words, i + 1)
         IN  IF test.t # "str" THEN -1
             ELSE IF rest # 0 THEN rest
             ELSE IF WordSearch(words, Lower(test.s)) THEN i
             ELSE 0

\* index of the item next(...) yields: the first one whose label matches.
\* 0 when no item matches; -1 when search() raises TypeError on a null label
\* before a match is found.
RECURSIVE FirstMatch(_, _, _)
FirstMatch(items, words, i) ==
    IF i > Len(items) THEN 0
    ELSE LET test == GetOrEmpty(items[i].test)
         IN  IF test.t # "str" THEN -1
             ELSE IF WordSearch(words, Lower(test.s)) THEN i
             ELSE FirstMatch(items, words, i + 1)

\* data.get('test_results', []) as the list that is iterated
TestResults(data) ==
    IF data.test_results.t = "absent" THEN <<>> ELSE data.test_results.items

\* ChemValue without the second priority: the limit is never read
MutChemNoLimit(info) ==
    LET result == GetOrEmpty(info.result)
    IN  IF result.t # "str" THEN Raise
        ELSE IF NotNone(NumberSearch(result.s, FALSE))
        THEN Return(Some(Float(Val(NumberSearch(result.s, FALSE)))))
        ELSE IF WordSearch(NegativeMarkers, Lower(result.s)) THEN Return(Some(Zero))
        ELSE Return(None)

\* ChemValue with the marker test moved before the limit
MutChemMarkerBeforeLimit(info) ==
    LET result == GetOrEmpty(info.result)
        limit == GetOrEmpty(info.limit)
    IN  IF result.t # "str" THEN Raise
        ELSE IF NotNone(NumberSearch(result.s, FALSE))
        THEN Return(Some(Float(Val(NumberSearch(result.s, FALSE)))))
        ELSE IF WordSearch(NegativeMarkers, Lower(result.s)) THEN Return(Some(Zero))
        ELSE IF limit.t # "str" THEN Raise
        ELSE IF NotNone(NumberSearch(limit.s, FALSE))
        THEN Return(Some(Float(Val(NumberSearch(limit.s, FALSE)))))
        ELSE Return(None)

\* extract_chem_info from "result = info.get('result', '')" on
ChemValue(info) ==
    LET result == GetOrEmpty(info.result)
        limit == GetOrEmpty(info.limit)
    IN  IF result.t # "str" THEN Raise
        ELSE IF NotNone(NumberSearch(result.s, FALSE))
        THEN Return(Some(Float(Val(NumberSearch(result.s, FALSE)))))
        ELSE IF limit.t # "str" THEN Raise
        ELSE IF NotNone(NumberSearch(limit.s, FALSE))
        THEN Return(Some(Float(Val(NumberSearch(limit.s, FALSE)))))
        ELSE IF WordSearch(NegativeMarkers, Lower(result.s)) THEN Return(Some(Zero))
        ELSE Return(None)

extract_chem_info(data, key) ==
    IF data.test_results.t = "null" THEN Raise
    ELSE LET items == TestResults(data)
             i == FirstMatch(items, CHEM_PATTERNS[key], 1)
         IN  IF i = -1 THEN Raise
             ELSE IF i = 0 THEN Return(None)
             ELSE ChemValue(items[i])

\* MicroValue falling back to any number of the result
MutMicroPlainNumber(info) ==
    LET r == GetOrEmpty(info.result)
        result == IF r.t = "str" THEN r.s ELSE <<>>
    IN  IF NotNone(NumberSearch(result, TRUE))
        THEN Return(Some(Float(Val(NumberSearch(result, TRUE)))))
        ELSE IF NotNone(NumberSearch(result, FALSE))
        THEN Return(Some(Float(Val(NumberSearch(result, FALSE)))))
        ELSE IF WordSearch(NegativeMarkers, Lower(result)) THEN Return(Some(Zero))
        ELSE Return(None)

\* extract_micro_info from "result = info.get('result', '') or ''" on
MicroValue(info) ==
    LET r == GetOrEmpty(info.result)
        result == IF r.t = "str" THEN r.s ELSE <<>>
    IN  IF NotNone(NumberSearch(result, TRUE))
        THEN Return(Some(Float(Val(NumberSearch(result, TRUE)))))
        ELSE IF WordSearch(NegativeMarkers, Lower(result)) THEN Return(Some(Zero))
        ELSE Return(None)

extract_micro_info(data, key) ==
    IF data.test_results.t = "null" THEN Raise
    ELSE LET items == TestResults(data)
             i == FirstMatch(items, MICRO_PATTERNS[key], 1)
         IN  IF i = -1 THEN Raise
             ELSE IF i = 0 THEN Return(None)
             ELSE MicroValue(items[i])

\* extract_field(row, field, extractor_func): None when json.loads fails, when
\* the cell holds no JSON object, or when the extractor raises
extract_field_chem(json_values, field) ==
    IF json_values.kind # "object" THEN None
    ELSE LET r == extract_chem_info(json_values, field)
         IN  IF r.exc THEN None ELSE r.v

extract_field_micro(json_values, field) ==
    IF json_values.kind # "object" THEN None
    ELSE LET r == extract_micro_info(json_values, field)
         IN  IF r.exc THEN None ELSE r.v

----------------------------------------------------------------------------
(* The json_values cell and the candidate rows (STEP 1 and STEP 2) *)

\* A lot_number / lot_numbers value of the envelope: missing or null
\* (d.get gives None), a string, or a list of strings and nulls.
LotNone == [t |-> "none", s |-> <<>>, items |-> <<>>]
LotStr(s) == [t |-> "str", s |-> s, items |-> <<>>]
LotList(items) == [t |-> "list", s |-> <<>>, items |-> items]

\* Python truthiness of such a value
Truthy(v) ==
    \/ v.t = "str" /\ v.s # <<>>
    \/ v.t = "list" /\ v.items # <<>>

\* safe_parse(cell) returns a dict for these kinds of cell: a JSON object, a
\* Python-repr dict ("pyrepr"), and {} for an unparsable cell ("invalid").
\* A cell that parses to something else ("nonobject") is returned as it is.
SafeParseIsDict(cell) == cell.kind # "nonobject"
SafeParseHasKeys(cell) == cell.kind \in {"object", "pyrepr"}

\* d.get("lot_number") or d.get("lot_numbers") or [0]
LotNumbersOf(cell) ==
    LET a == IF SafeParseHasKeys(cell) THEN cell.lot_number ELSE LotNone
        b == IF SafeParseHasKeys(cell) THEN cell.lot_numbers ELSE LotNone
    IN  IF Truthy(a) THEN a ELSE IF Truthy(b) THEN b ELSE LotList(<<PyInt0>>)

IsNotPyNone(x) == x.t # "None"

\* LotCandidates reading the first entry of a lot list only
MutLotCandidatesFirst(cell) ==
    LET v == LotNumbersOf(cell)
        exploded == IF v.t = "str" THEN <<PyStr(v.s)>> ELSE v.items
        kept == SelectSeq(SubSeq(exploded, 1, 1), IsNotPyNone)
    IN  [i \in DOMAIN kept |-> clean_and_extract_lot(kept[i])]

\* explode("lot_numbers"), dropna(subset=["lot_number"]) and then
\* clean_and_extract_lot on every remaining cell
LotCandidates(cell) ==
    LET v == LotNumbersOf(cell)
        exploded == IF v.t = "str" THEN <<PyStr(v.s)>> ELSE v.items
        kept == SelectSeq(exploded, IsNotPyNone)
    IN  [i \in DOMAIN kept |-> clean_and_extract_lot(kept[i])]

\* the candidate rows of one sheet row: lot candidates x M-numbers of the
\* file name, the lot candidates being the outer loop
RECURSIVE CrossRows(_, _, _, _)
CrossRows(doc, lots, ms, k) ==
    IF k > Len(lots) * Len(ms) THEN <<>>
    ELSE <<[filename |-> doc.filename,
            json_values |-> doc.json_values,
            lot_number |-> lots[((k - 1) \div Len(ms)) + 1],
            m_number |-> ms[((k - 1) % Len(ms)) + 1]]>>
         \o CrossRows(doc, lots, ms, k + 1)

RECURSIVE ExplodeAll(_, _)
ExplodeAll(df, i) ==
    IF i > Len(df) THEN <<>>
    ELSE CrossRows(df[i], LotCandidates(df[i].json_values),
                   MNumbersOf(df[i].filename_clean), 1)
         \o ExplodeAll(df, i + 1)

\* json.loads(row['json_values']) succeeds and yields a dict
JsonLoadsDict(cell) == cell.kind = "object"

\* the columns STEP 2 adds to a candidate row
TestColumns(cell) ==
    [f \in Range(ChemFields) |-> extract_field_chem(cell, f)]
    @@ [f \in Range(MicroFields) |-> extract_field_micro(cell, f)]

\* extract_general_info
GeneralInfo(cell) ==
    IF JsonLoadsDict(cell)
    THEN [product_name |-> cell.product_name,
          manufacture_date |-> cell.manufacture_date,
          expiry_date |-> cell.expiry_date]
    ELSE [product_name |-> None, manufacture_date |-> None, expiry_date |-> None]

WithTestsAndInfo(row) ==
    row @@ [tests |-> TestColumns(row.json_values)] @@ GeneralInfo(row.json_values)

----------------------------------------------------------------------------
(* Name similarity (STEP 3) *)

\* clean_text on the names of the model: lower case, characters other than
\* [a-z0-9\s] removed, stripped.  "" for a null.
CleanTextTable ==
    "Turmeric Extract 95%" :> "turmeric extract 95" @@
    "Ginger Powder" :> "ginger powder" @@
    "MSM" :> "msm" @@
    "Turmeric Root Extract" :> "turmeric root extract" @@
    "Ginger Extract" :> "ginger extract" @@
    "Citric Acid" :> "citric acid" @@
    "Ginger Root Powder" :> "ginger root powder" @@
    "Ascorbic Acid" :> "ascorbic acid"

clean_text(text) == IF IsNone(text) THEN "" ELSE CleanTextTable[Val(text)]

\* fuzz.token_set_ratio on processed names, as the library computes it for
\* these strings (0..100)
RatioTable ==
    "turmeric extract 95" :>
        ("turmeric root extract" :> 91 @@ "ginger extract" :> 67 @@
         "citric acid" :> 40 @@ "ginger root powder" :> 11 @@
         "ascorbic acid" :> 38) @@
    "ginger powder" :>
        ("turmeric root extract" :> 12 @@ "ginger extract" :> 67 @@
         "citric acid" :> 17 @@ "ginger root powder" :> 100 @@
         "ascorbic acid" :> 15) @@
    "msm" :>
        ("turmeric root extract" :> 8 @@ "ginger extract" :> 0 @@
         "citric acid" :> 0 @@ "ginger root powder" :> 0 @@
         "ascorbic acid" :> 12)

\* utils.full_process inside token_set_ratio: lower case, other characters
\* to spaces, stripped.  On the names of the model it gives what clean_text
\* gives; a string already processed is unchanged.
FullProcess(a) == IF a \in DOMAIN CleanTextTable THEN CleanTextTable[a] ELSE a

\* fuzz.token_set_ratio(a, b): 0 when either string is empty after processing
token_set_ratio(a, b) ==
    LET pa == FullProcess(a)
        pb == FullProcess(b)
    IN  IF pa = "" \/ pb = "" THEN 0 ELSE RatioTable[pa][pb]

----------------------------------------------------------------------------
(* Registry joins (STEP 3) *)

\* order_df['lot_number_order_clean'] of a registry row
OrderKey(o) == CleanKey(LotNumberOrder(o.user_lot))

\* MergeLot keeping the first registry row of the key only
MutMergeLotFirstOnly(row, order) ==
    LET key == CleanKey(row.lot_number)
        hits == SelectSeq(order, LAMBDA o : OrderKey(o) = key)
    IN  IF hits = <<>>
        THEN <<row @@ [lot_number_clean |-> key, rm_code1 |-> None, rm_name1 |-> None]>>
        ELSE <<row @@ [lot_number_clean |-> key,
                       rm_code1 |-> Some(hits[1].part_number),
                       rm_name1 |-> hits[1].description]>>

\* pd.merge(how='left') of one left row on lot_number_clean: one output row
\* per registry row with that key, in registry order; one row of nulls when
\* there is none
MergeLot(row, order) ==
    LET key == CleanKey(row.lot_number)
        hits == SelectSeq(order, LAMBDA o : OrderKey(o) = key)
    IN  IF hits = <<>>
        THEN <<row @@ [lot_number_clean |-> key, rm_code1 |-> None, rm_name1 |-> None]>>
        ELSE [i \in DOMAIN hits |->
                 row @@ [lot_number_clean |-> key,
                         rm_code1 |-> Some(hits[i].part_number),
                         rm_name1 |-> hits[i].description]]

\* the second merge, on m_number_clean
MergeMNumber(row, order) ==
    LET key == CleanKey(row.m_number)
        hits == SelectSeq(order, LAMBDA o : OrderKey(o) = key)
    IN  IF hits = <<>>
        THEN <<row @@ [m_number_clean |-> key, rm_code2 |-> None, rm_name2 |-> None]>>
        ELSE [i \in DOMAIN hits |->
                 row @@ [m_number_clean |-> key,
                         rm_code2 |-> Some(hits[i].part_number),
                         rm_name2 |-> hits[i].description]]

\* the first merge of the whole frame: the left rows in their order
RECURSIVE MergeAllLot(_, _, _)
MergeAllLot(df, order, i) ==
    IF i > Len(df) THEN <<>>
    ELSE MergeLot(df[i], order) \o MergeAllLot(df, order, i + 1)

\* the second merge of the whole frame
RECURSIVE MergeAllMNumber(_, _, _)
MergeAllMNumber(df, order, i) ==
    IF i > Len(df) THEN <<>>
    ELSE MergeMNumber(df[i], order) \o MergeAllMNumber(df, order, i + 1)

\* name_similarity1, name_similarity2 and their row-wise maximum
WithSimilarity(row) ==
    LET name == clean_text(row.product_name)
        s1 == token_set_ratio(name, clean_text(row.rm_name1))
        s2 == token_set_ratio(name, clean_text(row.rm_name2))
    IN  row @@ [clean_product_name |-> name,
                name_similarity1 |-> s1,
                name_similarity2 |-> s2,
                name_similarity |-> Max(s1, s2)]

\* merged_extracted_df2 of the candidate rows
MergedWithOrders(df, order) ==
    LET m1 == MergeAllLot(df, order, 1)
        m2 == MergeAllMNumber(m1, order, 1)
    IN  [i \in DOMAIN m2 |-> WithSimilarity(m2[i])]

\* Series.str raises AttributeError ("Can only use .str accessor with string
\* values") on a non-empty object column that holds integers only: the
\* m_number column when no file name holds an M-number
StrAccessorRaises(df) ==
    df # <<>> /\ \A i \in DOMAIN df : df[i].m_number.t = "int"

----------------------------------------------------------------------------
(* Fallback match (STEP 4) *)

\* BestMatchLoop replacing the best row on an equal score too
RECURSIVE MutBestMatchLoopLast(_, _, _)
MutBestMatchLoopLast(product_name, rm, i) ==
    IF i = 0 THEN <<-1, None>>
    ELSE LET prev == MutBestMatchLoopLast(product_name, rm, i - 1)
             score == token_set_ratio(product_name, rm[i].description)
         IN  IF score >= prev[1] THEN <<score, Some(rm[i])>> ELSE prev

\* the loop of find_best_match over rm_df[1..i]: <<best_score, best_row>>,
\* best_row an optional catalog row
RECURSIVE BestMatchLoop(_, _, _)
BestMatchLoop(product_name, rm, i) ==
    IF i = 0 THEN <<-1, None>>
    ELSE LET prev == BestMatchLoop(product_name, rm, i - 1)
             score == token_set_ratio(product_name, rm[i].description)
         IN  IF score > prev[1] THEN <<score, Some(rm[i])>> ELSE prev

\* find_best_match returning best_score in the branch without a row too
MutFindBestMatchRawScore(product_name, rm) ==
    LET best == BestMatchLoop(product_name, rm, Len(rm))
    IN  IF NotNone(best[2])
        THEN [matched_part_number |-> Some(Val(best[2]).part_number),
              matched_description |-> Some(Val(best[2]).description),
              similarity_score |-> best[1]]
        ELSE [matched_part_number |-> None,
              matched_description |-> None,
              similarity_score |-> best[1]]

find_best_match(product_name, rm) ==
    LET best == BestMatchLoop(product_name, rm, Len(rm))
    IN  IF NotNone(best[2])
        THEN [matched_part_number |-> Some(Val(best[2]).part_number),
              matched_description |-> Some(Val(best[2]).description),
              similarity_score |-> best[1]]
        ELSE [matched_part_number |-> None,
              matched_description |-> None,
              similarity_score |-> 0]

FileNames(df) == {df[i].filename : i \in DOMAIN df}

RowsOfFile(df, f) == {i \in DOMAIN df : df[i].filename = f}

\* groupby(filename)['name_similarity'].max()
MaxSimilarity(df, f) ==
    CHOOSE m \in {df[i].name_similarity : i \in RowsOfFile(df, f)} :
        \A i \in RowsOfFile(df, f) : df[i].name_similarity <= m

\* UnmatchedFiles taking every file of low similarity for unmatched
MutUnmatchedLow(df) == {f \in FileNames(df) : MaxSimilarity(df, f) < 50}

\* unmatched_file: the files whose greatest similarity is 0
UnmatchedFiles(df) == {f \in FileNames(df) : MaxSimilarity(df, f) = 0}

\* Series.apply on an empty Series returns an empty Series, not a frame with
\* the columns of find_best_match: selecting rm_code3 then raises KeyError
NoFallbackColumns(df) == UnmatchedFiles(df) = {}

\* WithFallback attaching the best catalog entry to the rows of every file
MutWithFallbackAll(df, rm) ==
    [i \in DOMAIN df |->
        LET m == find_best_match(df[i].clean_product_name, rm)
        IN  df[i] @@ [rm_code3 |-> m.matched_part_number,
                      rm_name3 |-> m.matched_description,
                      name_similarity3 |-> Some(m.similarity_score)]]

\* the left merge of the fallback columns on filename
WithFallback(df, rm) ==
    [i \in DOMAIN df |->
        IF df[i].filename \in UnmatchedFiles(df)
        THEN LET m == find_best_match(df[i].clean_product_name, rm)
             IN  df[i] @@ [rm_code3 |-> m.matched_part_number,
                           rm_name3 |-> m.matched_description,
                           name_similarity3 |-> Some(m.similarity_score)]
        ELSE df[i] @@ [rm_code3 |-> None, rm_name3 |-> None,
                       name_similarity3 |-> None]]

----------------------------------------------------------------------------
(* Per-file ranking and the final entity (STEP 5) *)

\* Rank1 with equal similarities in reverse row order
MutRankLast(df, i) ==
    1 + Cardinality({j \in RowsOfFile(df, df[i].filename) :
            \/ df[j].name_similarity > df[i].name_similarity
            \/ df[j].name_similarity = df[i].name_similarity /\ j > i})

\* Rank1 with method="dense": equal similarities share a rank
MutRankDense(df, i) ==
    1 + Cardinality({df[j].name_similarity : j \in
            {k \in RowsOfFile(df, df[i].filename) :
                df[k].name_similarity > df[i].name_similarity}})

\* groupby("filename")["name_similarity"].rank(method="first",
\* ascending=False) of row i: greater similarities first, equal ones in row order
Rank1(df, i) ==
    1 + Cardinality({j \in RowsOfFile(df, df[i].filename) :
            \/ df[j].name_similarity > df[i].name_similarity
            \/ df[j].name_similarity = df[i].name_similarity /\ j < i})

WithRank1(df) ==
    [i \in DOMAIN df |->
        df[i] @@ [rank1 |-> Rank1(df, i),
                  max_name_similarity |-> MaxSimilarity(df, df[i].filename)]]

\* WithFinal asking for the file-name match before the lot match
MutWithFinalFileFirst(row) ==
    LET byFile == row.max_name_similarity # 0
                  /\ row.name_similarity2 = row.name_similarity
        byLot == row.max_name_similarity # 0
                 /\ row.name_similarity1 = row.name_similarity
    IN  row @@
        [rm_id_final |-> IF byFile THEN row.rm_code2
                         ELSE IF byLot THEN row.rm_code1 ELSE row.rm_code3,
         rm_name_final |-> IF byFile THEN row.rm_name2
                           ELSE IF byLot THEN row.rm_name1 ELSE row.rm_name3,
         name_similarity_final |->
             IF row.max_name_similarity = 0 THEN row.name_similarity3
             ELSE Some(row.max_name_similarity)]

\* rm_id_final, rm_name_final and name_similarity_final of a winning row
WithFinal(row) ==
    LET byLot == row.max_name_similarity # 0
                 /\ row.name_similarity1 = row.name_similarity
        byFile == row.max_name_similarity # 0
                  /\ row.name_similarity2 = row.name_similarity
    IN  row @@
        [rm_id_final |-> IF byLot THEN row.rm_code1
                         ELSE IF byFile THEN row.rm_code2 ELSE row.rm_code3,
         rm_name_final |-> IF byLot THEN row.rm_name1
                           ELSE IF byFile THEN row.rm_name2 ELSE row.rm_name3,
         name_similarity_final |->
             IF row.max_name_similarity = 0 THEN row.name_similarity3
             ELSE Some(row.max_name_similarity)]

Winners(df) ==
    LET w == SelectSeq(df, LAMBDA r : r.rank1 = 1)
    IN  [i \in DOMAIN w |-> WithFinal(w[i])]

----------------------------------------------------------------------------
(* Quality filter, per-entity ranking and export (STEP 6 and STEP 7) *)

\* extract_coa_sufficient_content: None for a blank or unparsable cell
extract_coa_sufficient_content(cell) ==
    IF JsonLoadsDict(cell) THEN cell.coa_sufficient_content ELSE None

WithSufficientContent(row) ==
    row @@ [coa_sufficient_content |-> extract_coa_sufficient_content(row.json_values)]

\* a comparison with a missing value (NaN) is False
AtLeast(o, n) == NotNone(o) /\ Val(o) >= n

\* PassesQualityFilter without the test of the sufficiency score
MutFilterNoSufficiency(row) ==
    row.max_name_similarity >= 50 \/ AtLeast(row.name_similarity_final, 80)

\* the mask of the quality filter
PassesQualityFilter(row) ==
    /\ row.max_name_similarity >= 50 \/ AtLeast(row.name_similarity_final, 80)
    /\ AtLeast(row.coa_sufficient_content, 8)

\* the entity codes of the model in sorted order: groupby sorts its keys
CodeOrder == <<"RM1", "RM2", "RM3", "RM4", "RM5", "RM6">>

\* seq sorted by the date in column descending, equal dates in their order
\* in seq (sort_values(column, ascending=False) on the sizes of a group of
\* the model)
SortDescending(seq, column) ==
    LET pos(i) == 1 + Cardinality({j \in DOMAIN seq :
                        \/ Val(seq[j][column]) > Val(seq[i][column])
                        \/ Val(seq[j][column]) = Val(seq[i][column]) /\ j < i})
    IN  [p \in DOMAIN seq |-> seq[CHOOSE i \in DOMAIN seq : pos(i) = p]]

\* seq sorted by the date in column ascending
SortAscending(seq, column) ==
    LET pos(i) == 1 + Cardinality({j \in DOMAIN seq :
                        \/ Val(seq[j][column]) < Val(seq[i][column])
                        \/ Val(seq[j][column]) = Val(seq[i][column]) /\ j < i})
    IN  [p \in DOMAIN seq |-> seq[CHOOSE i \in DOMAIN seq : pos(i) = p]]

\* custom_rank sorting both dated partitions in ascending order
MutCustomRankAscending(group) ==
    LET with_mfg == SelectSeq(group, LAMBDA r : NotNone(r.manufacture_date))
        with_expiry == SelectSeq(group, LAMBDA r :
                           IsNone(r.manufacture_date) /\ NotNone(r.expiry_date))
        fallback == SelectSeq(group, LAMBDA r :
                        IsNone(r.manufacture_date) /\ IsNone(r.expiry_date))
        combined == SortAscending(with_mfg, "manufacture_date")
                    \o SortAscending(with_expiry, "expiry_date")
                    \o fallback
    IN  [i \in DOMAIN combined |-> combined[i] @@ [rank |-> i]]

\* custom_rank(group): the three partitions, sorted, ranked 1..N
custom_rank(group) ==
    LET with_mfg == SelectSeq(group, LAMBDA r : NotNone(r.manufacture_date))
        with_expiry == SelectSeq(group, LAMBDA r :
                           IsNone(r.manufacture_date) /\ NotNone(r.expiry_date))
        fallback == SelectSeq(group, LAMBDA r :
                        IsNone(r.manufacture_date) /\ IsNone(r.expiry_date))
        combined == SortDescending(with_mfg, "manufacture_date")
                    \o SortDescending(with_expiry, "expiry_date")
                    \o fallback
    IN  [i \in DOMAIN combined |-> combined[i] @@ [rank |-> i]]

\* groupby('rm_id_final', group_keys=False).apply(custom_rank): the groups in
\* key order (rows with a null key belong to no group)
RECURSIVE RankGroups(_, _)
RankGroups(df, k) ==
    IF k > Len(CodeOrder) THEN <<>>
    ELSE custom_rank(SelectSeq(df, LAMBDA r : r.rm_id_final = Some(CodeOrder[k])))
         \o RankGroups(df, k + 1)

\* FilteredAndRanked with the two steps exchanged: custom_rank over all
\* assignments of an entity, the quality filter afterwards
MutRankedThenFiltered(df) == SelectSeq(RankGroups(df, 1), PassesQualityFilter)

\* rm_final2: the quality filter, then custom_rank on every group of the
\* rows that are left
FilteredAndRanked(df) == RankGroups(SelectSeq(df, PassesQualityFilter), 1)

\* the renaming of the test columns for the export
RenamedColumn ==
    "arsenic_ppm" :> "u_Arsenic_PPM" @@ "cadmium_ppm" :> "u_Cadmium_PPM" @@
    "chromium_ppm" :> "u_Chromium" @@ "lead_ppm" :> "u_Lead_PPM" @@
    "mercury_ppm" :> "u_Mercury_PPM" @@
    "total_plate_count" :> "u_Total_Plate_Count" @@
    "yeast_and_mold" :> "u_Yeast_and_Mold" @@
    "e_coli" :> "u_Escherichia_Coli" @@ "salmonella" :> "u_Salmonella" @@
    "staphylococcus_aureus" :> "u_Staphylococcus_Aureus"

\* ExportRow keeping the column name_similarity_final
MutExportRowWithConfidence(row) ==
    [pr_codenum |-> row.rm_id_final,
     rm_name_final |-> row.rm_name_final,
     manufacture_date |-> row.manufacture_date,
     expiry_date |-> row.expiry_date,
     name_similarity_final |-> row.name_similarity_final]
    @@ [c \in {RenamedColumn[f] : f \in DOMAIN RenamedColumn} |->
           row.tests[CHOOSE f \in DOMAIN RenamedColumn : RenamedColumn[f] = c]]

\* a row of rm_clean: the columns left after the drop, renamed
ExportRow(row) ==
    [pr_codenum |-> row.rm_id_final,
     rm_name_final |-> row.rm_name_final,
     manufacture_date |-> row.manufacture_date,
     expiry_date |-> row.expiry_date]
    @@ [c \in {RenamedColumn[f] : f \in DOMAIN RenamedColumn} |->
           row.tests[CHOOSE f \in DOMAIN RenamedColumn : RenamedColumn[f] = c]]

\* Exported without the selection of rank 1
MutExportedAll(df) == [i \in DOMAIN df |-> ExportRow(df[i])]

Exported(df) ==
    LET first == SelectSeq(df, LAMBDA r : r.rank = 1)
    IN  [i \in DOMAIN first |-> ExportRow(first[i])]

----------------------------------------------------------------------------
(* Inputs of the model *)

\* the greatest number of rows of the Extracted Data sheet
MaxDocs == 2

T_M1001 == <<"M", "1", "0", "0", "1">>
T_M_1002 == <<"M", "-", "1", "0", "0", "2">>
T_L77 == <<"L", "7", "7">>
T_COA_M1001 == <<"C", "O", "A", " ", "M", "1", "0", "0", "1">>
T_M1002 == <<"M", "1", "0", "0", "2">>
T_M1003 == <<"M", "1", "0", "0", "3">>
T_scan == <<"s", "c", "a", "n">>
T_M_1002_pdf == <<"M", "-", "1", "0", "0", "2", ".", "p", "d", "f">>
T_Lead == <<"L", "e", "a", "d", " ", "(", "P", "b", ")">>
T_Coli == <<"E", ".", " ", "C", "o", "l", "i">>
T_2_3_ppm == <<"2", ".", "3", " ", "p", "p", "m">>
T_5_ppm == <<"5", " ", "p", "p", "m">>
T_Not_Detected == <<"N", "o", "t", " ", "D", "e", "t", "e", "c", "t", "e", "d">>

Entry(test, result, limit) == [test |-> test, result |-> result, limit |-> limit]

NoTests == [t |-> "absent", items |-> <<>>]
NullTests == [t |-> "null", items |-> <<>>]
Tests(items) == [t |-> "list", items |-> items]

SomeTests ==
    Tests(<<Entry(Str(T_Lead), Str(T_2_3_ppm), Str(T_5_ppm)),
            Entry(Str(T_Coli), Str(T_Not_Detected), Absent)>>)

\* a json_values cell holding a JSON object
Envelope(lot_number, lot_numbers, product_name, mfg, exp, score, tests) ==
    [kind |-> "object",
     lot_number |-> lot_number,
     lot_numbers |-> lot_numbers,
     product_name |-> product_name,
     manufacture_date |-> mfg,
     expiry_date |-> exp,
     coa_sufficient_content |-> score,
     test_results |-> tests]

\* a cell that is no JSON object: "invalid" (blank or unparsable text) or
\* "nonobject" (text that parses to a list or a scalar)
OtherCell(kind) ==
    [kind |-> kind,
     lot_number |-> LotNone,
     lot_numbers |-> LotNone,
     product_name |-> None,
     manufacture_date |-> None,
     expiry_date |-> None,
     coa_sufficient_content |-> None,
     test_results |-> NoTests]

SheetRow(filename_clean, cell) ==
    [filename_clean |-> filename_clean, json_values |-> cell]

Turmeric == Some("Turmeric Extract 95%")
Ginger == Some("Ginger Powder")
Msm == Some("MSM")

\* Sheet rows that differ in their keys and product names.
MatchDocs ==
    { \* lot and file name give the same key, which two registry rows carry
      SheetRow(T_COA_M1001,
               Envelope(LotStr(T_M1001), LotNone, Turmeric, None, None, Some(9), SomeTests)),
      \* two lot numbers, one M-number in the file name
      SheetRow(T_M1002,
               Envelope(LotList(<<PyStr(T_M_1002), PyStr(T_M1001)>>), LotNone, Turmeric,
                        None, None, Some(9), SomeTests)),
      \* no lot number, no M-number in the file name
      SheetRow(T_scan,
               Envelope(LotNone, LotNone, Turmeric, None, None, Some(9), NoTests)),
      \* a key of the registry, a product name sharing nothing with its description
      SheetRow(T_scan,
               Envelope(LotStr(T_M_1002), LotNone, Msm, None, None, Some(9), NoTests)),
      \* a key two registry rows carry, low but nonzero similarities, the
      \* second row's the greater; a catalog row fits the name exactly
      SheetRow(T_M1003,
               Envelope(LotNone, LotList(<<PyStr(T_M1001)>>), Ginger, None, None, Some(9), NoTests)),
      \* a lot list holding a null only
      SheetRow(T_M1001,
               Envelope(LotList(<<PyNone>>), LotNone, Turmeric, None, None, Some(9), NoTests)),
      \* no product name
      SheetRow(T_M1003,
               Envelope(LotStr(T_M1001), LotNone, None, None, None, Some(9), NullTests)),
      \* keys the registry does not hold
      SheetRow(T_M1003,
               Envelope(LotStr(T_L77), LotNone, Ginger, None, None, Some(9), NoTests)),
      \* an exact match of middling similarity
      SheetRow(T_M1002,
               Envelope(LotStr(T_M_1002), LotNone, Ginger, None, None, Some(8), SomeTests)),
      \* a cell that does not parse
      SheetRow(T_M1001, OtherCell("invalid")),
      \* a cell that parses to a list
      SheetRow(T_M1001, OtherCell("nonobject")) }

\* Sheet rows of one product that differ in dates and score: all of them with
\* a lot number of the registry (and a file name the second registry holds
\* too), some of them without any key.
RankDocs ==
    { SheetRow(T_M1003, Envelope(LotStr(T_M1001), LotNone, Turmeric, d[1], d[2], d[3], NoTests)) :
        d \in { <<Some(20240101), None, Some(9)>>,
                <<Some(20240601), None, Some(9)>>,
                <<Some(20240601), Some(20250101), Some(7)>>,
                <<None, Some(20250101), Some(9)>>,
                <<None, Some(20260101), Some(10)>>,
                <<None, None, Some(9)>>,
                <<None, None, None>> } }
    \cup
    { SheetRow(T_scan, Envelope(LotNone, LotNone, Turmeric, d[1], d[2], d[3], NoTests)) :
        d \in { <<Some(20240101), None, Some(9)>>,
                <<Some(20240601), Some(20250101), Some(7)>> } }

DocPool == MatchDocs \cup RankDocs

OrderRow(user_lot, part_number, description) ==
    [user_lot |-> user_lot, part_number |-> part_number, description |-> description]

\* the registry: two rows share the key of M1001; the second choice adds a
\* row whose User Lot is empty and a row that carries the description of
\* the first row under another key and another code
RegistryChoices ==
    { << OrderRow(Some(T_M1001), "RM1", Some("Turmeric Root Extract")),
         OrderRow(Some(T_M_1002_pdf), "RM2", Some("Ginger Extract")),
         OrderRow(Some(T_M1001), "RM3", Some("Citric Acid")) >>,
      << OrderRow(Some(T_M1001), "RM1", Some("Turmeric Root Extract")),
         OrderRow(None, "RM4", Some("Ascorbic Acid")),
         OrderRow(Some(T_M_1002_pdf), "RM2", Some("Ginger Extract")),
         OrderRow(Some(T_M1001), "RM3", Some("Citric Acid")),
         OrderRow(Some(T_M1003), "RM6", Some("Turmeric Root Extract")) >> }

CatalogRow(part_number, description) ==
    [part_number |-> part_number, description |-> description]

CatalogChoices ==
    { << CatalogRow("RM2", "Ginger Extract"),
         CatalogRow("RM1", "Turmeric Root Extract"),
         CatalogRow("RM5", "Ginger Root Powder"),
         CatalogRow("RM3", "Citric Acid") >> }

----------------------------------------------------------------------------
(* process_validation *)

\* File names are unique in the sheet (a row is added only for a file name
\* the sheet does not hold yet): row i carries file name i.
Init ==
    /\ pc = "step1"
    /\ \E n \in 1..MaxDocs : \E f \in [1..n -> DocPool] :
           extracted_df = [i \in 1..n |-> f[i] @@ [filename |-> i]]
    /\ order_df \in RegistryChoices
    /\ rm_df \in CatalogChoices
    /\ extracted_df3 = <<>>
    /\ extracted_df4 = <<>>
    /\ merged_extracted_df2 = <<>>
    /\ merged_extracted_df3 = <<>>
    /\ merged_extracted_df4 = <<>>
    /\ rm_final = <<>>
    /\ rm_final2 = <<>>
    /\ rm_clean = <<>>
    /\ fbm_name = ""
    /\ fbm_result = None
    /\ ExtractionIdle /\ OcrIdle /\ UploadIdle

\* STEP 1: lot numbers and M-numbers, both exploded.  d.get raises
\* AttributeError when safe_parse returned something that is no dict.
ParseLotNumbers ==
    /\ pc = "step1"
    /\ IF \E i \in DOMAIN extracted_df : ~SafeParseIsDict(extracted_df[i].json_values)
       THEN /\ pc' = "aborted"
            /\ UNCHANGED extracted_df3
       ELSE /\ pc' = "step2"
            /\ extracted_df3' = ExplodeAll(extracted_df, 1)
    /\ UNCHANGED <<extracted_df, order_df, rm_df, extracted_df4, merged_extracted_df2,
                   merged_extracted_df3, merged_extracted_df4, rm_final, rm_final2, rm_clean>>
    /\ UNCHANGED <<fbm_name, fbm_result, io_vars>>

\* STEP 2: the test columns and the general info of every candidate row
ExtractTestResults ==
    /\ pc = "step2"
    /\ pc' = "step3"
    /\ extracted_df4' = [i \in DOMAIN extracted_df3 |-> WithTestsAndInfo(extracted_df3[i])]
    /\ UNCHANGED <<extracted_df, order_df, rm_df, extracted_df3, merged_extracted_df2,
                   merged_extracted_df3, merged_extracted_df4, rm_final, rm_final2, rm_clean>>
    /\ UNCHANGED <<fbm_name, fbm_result, io_vars>>

\* STEP 3: both registry joins and the similarity scores
MatchRmCodes ==
    /\ pc = "step3"
    /\ IF StrAccessorRaises(extracted_df4)
       THEN /\ pc' = "aborted"
            /\ UNCHANGED merged_extracted_df2
       ELSE /\ pc' = "step4"
            /\ merged_extracted_df2' = MergedWithOrders(extracted_df4, order_df)
    /\ UNCHANGED <<extracted_df, order_df, rm_df, extracted_df3, extracted_df4,
                   merged_extracted_df3, merged_extracted_df4, rm_final, rm_final2, rm_clean>>
    /\ UNCHANGED <<fbm_name, fbm_result, io_vars>>

\* STEP 4: the fallback match of the files without a match
HandleUnmatchedFiles ==
    /\ pc = "step4"
    /\ IF NoFallbackColumns(merged_extracted_df2)
       THEN /\ pc' = "aborted"
            /\ UNCHANGED merged_extracted_df3
       ELSE /\ pc' = "step5"
            /\ merged_extracted_df3' = WithFallback(merged_extracted_df2, rm_df)
    /\ UNCHANGED <<extracted_df, order_df, rm_df, extracted_df3, extracted_df4,
                   merged_extracted_df2, merged_extracted_df4, rm_final, rm_final2, rm_clean>>
    /\ UNCHANGED <<fbm_name, fbm_result, io_vars>>

\* STEP 5: rank1, max_name_similarity, the winning row of every file and
\* its final entity
FinalRanking ==
    /\ pc = "step5"
    /\ pc' = "step6"
    /\ merged_extracted_df3' = WithRank1(merged_extracted_df3)
    /\ merged_extracted_df4' = Winners(WithRank1(merged_extracted_df3))
    /\ UNCHANGED <<extracted_df, order_df, rm_df, extracted_df3, extracted_df4,
                   merged_extracted_df2, rm_final, rm_final2, rm_clean>>
    /\ UNCHANGED <<fbm_name, fbm_result, io_vars>>

\* STEP 6: the quality filter, then custom_rank per entity.  With no row
\* left, groupby.apply returns a frame without the rank column and
\* rm_final2['rank'] raises KeyError.
ApplyQualityFilters ==
    /\ pc = "step6"
    /\ LET all == [i \in DOMAIN merged_extracted_df4 |->
                      WithSufficientContent(merged_extracted_df4[i])]
           kept == SelectSeq(all, PassesQualityFilter)
       IN  /\ rm_final' = all
           /\ IF kept = <<>>
              THEN /\ pc' = "aborted"
                   /\ UNCHANGED rm_final2
              ELSE /\ pc' = "step7"
                   /\ rm_final2' = FilteredAndRanked(all)
    /\ UNCHANGED <<extracted_df, order_df, rm_df, extracted_df3, extracted_df4,
                   merged_extracted_df2, merged_extracted_df3, merged_extracted_df4, rm_clean>>
    /\ UNCHANGED <<fbm_name, fbm_result, io_vars>>

\* STEP 7: the rows of rank 1, their columns dropped and renamed
PrepareOutput ==
    /\ pc = "step7"
    /\ pc' = "done"
    /\ rm_clean' = Exported(rm_final2)
    /\ UNCHANGED <<extracted_df, order_df, rm_df, extracted_df3, extracted_df4,
                   merged_extracted_df2, merged_extracted_df3, merged_extracted_df4,
                   rm_final, rm_final2>>
    /\ UNCHANGED <<fbm_name, fbm_result, io_vars>>

Next ==
    \/ ParseLotNumbers
    \/ ExtractTestResults
    \/ MatchRmCodes
    \/ HandleUnmatchedFiles
    \/ FinalRanking
    \/ ApplyQualityFilters
    \/ PrepareOutput

Spec == Init /\ [][Next]_vars

----------------------------------------------------------------------------
(* The test-result extraction on its own: one sheet row whose test_results *)
(* range over short texts                                                  *)

\* the greatest number of atoms a result text is made of
MaxAtoms == 3

\* the pieces result texts are made of
ResultAtoms == {<<"2">>, <<".">>, <<" ">>, <<"c", "f", "u">>, T_Not_Detected}

RECURSIVE Flatten(_)
Flatten(parts) == IF parts = <<>> THEN <<>> ELSE Head(parts) \o Flatten(Tail(parts))

ResultTexts ==
    {Flatten(parts) : parts \in UNION {[1..n -> ResultAtoms] : n \in 0..MaxAtoms}}

T_Ash == <<"A", "s", "h">>
T_ppm == <<"p", "p", "m">>

ResultChoices == {Absent, Null} \cup {Str(t) : t \in ResultTexts}
LimitChoices == {Absent, Null, Str(<<>>), Str(T_ppm), Str(T_5_ppm)}
LabelChoices == {Str(T_Lead), Str(T_Coli), Str(T_Ash), Null}

\* the entries that may follow the first one
LaterEntries ==
    {Entry(Str(T_Lead), Str(<<"7">>), Absent),
     Entry(Str(T_Coli), Str(<<"7", "c", "f", "u">>), Absent)}

TestResultChoices ==
    {NoTests, NullTests, Tests(<<>>)}
    \cup {Tests(<<Entry(l, r, m)>>) :
            l \in LabelChoices, r \in ResultChoices, m \in LimitChoices}
    \cup {Tests(<<Entry(l, r, Absent), e>>) :
            l \in LabelChoices, r \in ResultChoices, e \in LaterEntries}

InitExtract ==
    /\ pc = "step1"
    /\ \E tr \in TestResultChoices :
           extracted_df =
               <<SheetRow(T_M1001,
                          Envelope(LotStr(T_M1001), LotNone, Turmeric, None, None,
                                   Some(9), tr))
                 @@ [filename |-> 1]>>
    /\ order_df = <<>>
    /\ rm_df = <<>>
    /\ extracted_df3 = <<>>
    /\ extracted_df4 = <<>>
    /\ merged_extracted_df2 = <<>>
    /\ merged_extracted_df3 = <<>>
    /\ merged_extracted_df4 = <<>>
    /\ rm_final = <<>>
    /\ rm_final2 = <<>>
    /\ rm_clean = <<>>
    /\ fbm_name = ""
    /\ fbm_result = None
    /\ ExtractionIdle /\ OcrIdle /\ UploadIdle

NextExtract ==
    \/ ParseLotNumbers
    \/ ExtractTestResults

SpecExtract == InitExtract /\ [][NextExtract]_vars

----------------------------------------------------------------------------
(* find_best_match on its own: a cleaned product name against catalogs of  *)
(* every length up to MaxCatalog, the empty one included                   *)

\* the greatest number of rows of a catalog
MaxCatalog == 3

\* the rows catalogs are made of; two items carry the same description
CatalogRowPool ==
    { CatalogRow("RM1", "Turmeric Root Extract"),
      CatalogRow("RM2", "Ginger Extract"),
      CatalogRow("RM3", "Citric Acid"),
      CatalogRow("RM4", "Ginger Extract"),
      CatalogRow("RM5", "Ginger Root Powder") }

Catalogs == UNION {[1..n -> CatalogRowPool] : n \in 0..MaxCatalog}

\* clean_product_name of the product names of the model, a missing one included
CleanProductNames == {clean_text(n) : n \in {None, Turmeric, Ginger, Msm}}

InitMatch ==
    /\ pc = "find_best_match"
    /\ fbm_name \in CleanProductNames
    /\ rm_df \in Catalogs
    /\ fbm_result = None
    /\ ExtractionIdle /\ OcrIdle /\ UploadIdle
    /\ extracted_df = <<>>
    /\ order_df = <<>>
    /\ extracted_df3 = <<>>
    /\ extracted_df4 = <<>>
    /\ merged_extracted_df2 = <<>>
    /\ merged_extracted_df3 = <<>>
    /\ merged_extracted_df4 = <<>>
    /\ rm_final = <<>>
    /\ rm_final2 = <<>>
    /\ rm_clean = <<>>

\* one call find_best_match(product_name, rm_df)
FindBestMatch ==
    /\ pc = "find_best_match"
    /\ pc' = "returned"
    /\ fbm_result' = Some(find_best_match(fbm_name, rm_df))
    /\ UNCHANGED <<extracted_df, order_df, rm_df, extracted_df3, extracted_df4,
                   merged_extracted_df2, merged_extracted_df3, merged_extracted_df4,
                   rm_final, rm_final2, rm_clean, fbm_name, io_vars>>

NextMatch ==
    \/ FindBestMatch

SpecMatch == InitMatch /\ [][NextMatch]_vars

----------------------------------------------------------------------------
(* process_extraction (src/coa_data_extraction.py): the loop over the rows  *)
(* of "Raw Data" that sends the files without a result to the model         *)

\* the number of rows of "Raw Data", at most
MaxFiles == 3

\* BATCH_SIZE, 20 in the source; a small one lets the model fill a batch
BatchSize == 2

\* the json_values cell of a file's row of the in-memory extracted_df: NaN
\* for a row that was added in this run, else the text of the sheet cell
JsonCells == {None, Some(""), Some(" "), Some("{old}")}

\* str.strip() of the cell texts of the model
StripCell(text) == IF text = " " THEN "" ELSE text

\* what the model returns, stripped
GptOutputs == {"{new}", "=new"}

\* a row of text_df, with what the loop reads of extracted_df for it.
\* padded: the file name has white space around it, so the stripped name
\* equals no file name of extracted_df
TextRows == [padded : BOOLEAN, json_values : JsonCells]

\* AlreadyProcessed looking at the file name only: a row that has a result
\* is not skipped
MutNothingProcessed(row) == row.padded

\* "match.empty or (pd.notna(...) and str(...).strip() != '')": the row is
\* skipped
AlreadyProcessed(row) ==
    \/ row.padded
    \/ NotNone(row.json_values) /\ StripCell(Val(row.json_values)) # ""

\* final_json: a leading quote keeps the sheet from reading a formula
FinalJson(final_output) ==
    IF final_output = "=new" THEN "'=new" ELSE final_output

\* the cells of the sheet after the updates of a batch, those of the files
\* in failed having raised
UpdateCells(sheet, batch, failed) ==
    [f \in DOMAIN sheet |->
        IF \E k \in DOMAIN batch : batch[k][1] = f /\ f \notin failed
        THEN LET k == CHOOSE j \in DOMAIN batch : batch[j][1] = f
             IN  batch[k][2]
        ELSE sheet[f]]

\* set_with_dataframe writes NaN as an empty cell
InitExtraction ==
    /\ pc = "extraction"
    /\ \E n \in 0..MaxFiles : ex_text_df \in [1..n -> TextRows]
    /\ ex_idx = 0
    /\ batch_updates = <<>>
    /\ extracted_sheet =
           [f \in DOMAIN ex_text_df |->
               IF ex_text_df[f].json_values = None THEN ""
               ELSE Val(ex_text_df[f].json_values)]
    /\ gpt_sent = {}
    /\ gpt_failed = {}
    /\ upload_failed = {}
    /\ ValidationIdle /\ OcrIdle /\ UploadIdle

\* an iteration that ends at the first "continue"
SkipProcessed ==
    /\ pc = "extraction"
    /\ ex_idx < Len(ex_text_df)
    /\ AlreadyProcessed(ex_text_df[ex_idx + 1])
    /\ ex_idx' = ex_idx + 1
    /\ UNCHANGED <<pc, validation_vars, ocr_vars, upload_vars, ex_text_df,
                   batch_updates, extracted_sheet, gpt_sent, gpt_failed, upload_failed>>

\* an iteration in which run_gpt4o_mini raises: the second "continue"
GptFails ==
    /\ pc = "extraction"
    /\ ex_idx < Len(ex_text_df)
    /\ ~AlreadyProcessed(ex_text_df[ex_idx + 1])
    /\ ex_idx' = ex_idx + 1
    /\ gpt_sent' = gpt_sent \cup {ex_idx + 1}
    /\ gpt_failed' = gpt_failed \cup {ex_idx + 1}
    /\ UNCHANGED <<pc, validation_vars, ocr_vars, upload_vars, ex_text_df,
                   batch_updates, extracted_sheet, upload_failed>>

\* an iteration that reaches its end: the result joins the batch, and the
\* batch is uploaded when it is full or idx is the last index of text_df.
\* The sheet row of the file is always known here: the sheet was written
\* from extracted_df, which holds the file name.
GptExtracts ==
    /\ pc = "extraction"
    /\ ex_idx < Len(ex_text_df)
    /\ ~AlreadyProcessed(ex_text_df[ex_idx + 1])
    /\ ex_idx' = ex_idx + 1
    /\ gpt_sent' = gpt_sent \cup {ex_idx + 1}
    /\ \E final_output \in GptOutputs :
           LET batch == Append(batch_updates, <<ex_idx + 1, FinalJson(final_output)>>)
           IN  IF Len(batch) >= BatchSize \/ ex_idx = Len(ex_text_df) - 1
               THEN \E failed \in SUBSET {batch[k][1] : k \in DOMAIN batch} :
                        /\ extracted_sheet' = UpdateCells(extracted_sheet, batch, failed)
                        /\ upload_failed' = upload_failed \cup failed
                        /\ batch_updates' = <<>>
               ELSE /\ batch_updates' = batch
                    /\ UNCHANGED <<extracted_sheet, upload_failed>>
    /\ UNCHANGED <<pc, validation_vars, ocr_vars, upload_vars, ex_text_df, gpt_failed>>

\* the loop is over: return extracted_df
ExtractionReturns ==
    /\ pc = "extraction"
    /\ ex_idx = Len(ex_text_df)
    /\ pc' = "extraction_returned"
    /\ UNCHANGED <<validation_vars, extraction_vars, ocr_vars, upload_vars>>

NextExtraction ==
    \/ SkipProcessed
    \/ GptFails
    \/ GptExtracts
    \/ ExtractionReturns

SpecExtraction == InitExtraction /\ [][NextExtraction]_vars

----------------------------------------------------------------------------
(* process_ocr (src/coa_ocr.py): the loop over the combined table           *)

\* BATCH_SIZE of coa_ocr.py, 100 in the source
OcrBatchSize == 2

\* A row of "Raw Data": its raw_text cell as get_all_values gives it, and
\* where the ZIP archive holds the file of its file name: not at all
\* ("none"), under that very name ("listed"), or in a directory of the
\* archive, the row holding the base name ("dir").
SheetRows ==
    [in_sheet : {TRUE}, raw_text : {Some(""), Some("text")},
     zip : {"none", "listed", "dir"}]

\* A row of new_rows: load_files_from_zip gives the base name of every file
\* of the archive; the row has no raw_text (NaN after concat).
NewRows == [in_sheet : {FALSE}, raw_text : {None}, zip : {"listed", "dir"}]

\* pd.concat([text_df, new_rows]): the sheet rows, then the new files
CombinedTables ==
    UNION {{a \o b : a \in [1..e -> SheetRows], b \in [1..(n - e) -> NewRows]} :
              n \in 0..MaxFiles, e \in 0..MaxFiles}

\* what extract_combined_text_from_file_local returns: stripped text, empty
\* for a file type it does not know, possibly longer than a cell may be
OcrTexts == {"", "ocr", "=ocr", "long"}

\* combined_text[:MAX_CELL_CHARS], and a leading quote before "="
SafeText(combined_text) ==
    IF combined_text = "long" THEN "lon"
    ELSE IF combined_text = "=ocr" THEN "'=ocr"
    ELSE combined_text

\* pd.isna(raw_text) or raw_text.strip() == ''
RawTextIsEmpty(row) == IF row.raw_text = None THEN TRUE ELSE Val(row.raw_text) = ""

\* filename in zip_filenames: namelist() holds the full names of the archive
InZipFilenames(row) == row.zip = "listed"

\* the row gets as far as the try block
RowIsDue(row) == RawTextIsEmpty(row) /\ InZipFilenames(row)

\* the sheet after the first k calls of update_cell for the updates
WriteFirst(sheet, updates, k) ==
    [r \in DOMAIN sheet |->
        IF \E j \in 1..k : updates[j][1] = r
        THEN updates[CHOOSE j \in 1..k :
                         updates[j][1] = r
                         /\ \A m \in (j + 1)..k : updates[m][1] # r][2]
        ELSE sheet[r]]

\* range(1, len(text_df)) starts at the label 1, the second row.  The sheet
\* holds the rows that were read from it; new rows are not written to it.
InitOcr ==
    /\ pc = "ocr"
    /\ text_df \in CombinedTables
    /\ ocr_i = 1
    /\ pending_updates = <<>>
    /\ raw_sheet = [r \in {k \in DOMAIN text_df : text_df[k].in_sheet} |->
                       Val(text_df[r].raw_text)]
    /\ ocr_tried = {}
    /\ ocr_done = {}
    /\ ValidationIdle /\ ExtractionIdle /\ UploadIdle

\* an iteration on a row that has a text, or whose file name is not among
\* the names of the archive
OcrSkipsRow ==
    /\ pc = "ocr"
    /\ ocr_i < Len(text_df)
    /\ ~RowIsDue(text_df[ocr_i + 1])
    /\ ocr_i' = ocr_i + 1
    /\ UNCHANGED <<pc, validation_vars, extraction_vars, upload_vars, text_df,
                   pending_updates, raw_sheet, ocr_tried, ocr_done>>

\* an iteration in which reading the file or the OCR raises
OcrRaises ==
    /\ pc = "ocr"
    /\ ocr_i < Len(text_df)
    /\ RowIsDue(text_df[ocr_i + 1])
    /\ ocr_i' = ocr_i + 1
    /\ ocr_tried' = ocr_tried \cup {ocr_i + 1}
    /\ UNCHANGED <<pc, validation_vars, extraction_vars, upload_vars, text_df,
                   pending_updates, raw_sheet, ocr_done>>

\* an iteration that computes the text of a file raw_filename_to_row does
\* not hold: a warning, and "continue"
OcrFindsNoSheetRow ==
    /\ pc = "ocr"
    /\ ocr_i < Len(text_df)
    /\ RowIsDue(text_df[ocr_i + 1])
    /\ ~text_df[ocr_i + 1].in_sheet
    /\ ocr_i' = ocr_i + 1
    /\ ocr_tried' = ocr_tried \cup {ocr_i + 1}
    /\ ocr_done' = ocr_done \cup {ocr_i + 1}
    /\ \E combined_text \in OcrTexts :
           text_df' = [text_df EXCEPT ![ocr_i + 1].raw_text = Some(combined_text)]
    /\ UNCHANGED <<pc, validation_vars, extraction_vars, upload_vars,
                   pending_updates, raw_sheet>>

\* an iteration that computes the text of a file of the sheet: the update
\* joins pending_updates, which are uploaded when there are BATCH_SIZE of
\* them.  update_cell may raise at any of them: the except clause of the
\* iteration catches it and pending_updates stays as it is.
OcrQueuesUpdate ==
    /\ pc = "ocr"
    /\ ocr_i < Len(text_df)
    /\ RowIsDue(text_df[ocr_i + 1])
    /\ text_df[ocr_i + 1].in_sheet
    /\ ocr_i' = ocr_i + 1
    /\ ocr_tried' = ocr_tried \cup {ocr_i + 1}
    /\ ocr_done' = ocr_done \cup {ocr_i + 1}
    /\ \E combined_text \in OcrTexts :
           LET pending == Append(pending_updates, <<ocr_i + 1, SafeText(combined_text)>>)
           IN  /\ text_df' = [text_df EXCEPT ![ocr_i + 1].raw_text = Some(combined_text)]
               /\ IF Len(pending) >= OcrBatchSize
                  THEN \E k \in 0..Len(pending) :
                           /\ raw_sheet' = WriteFirst(raw_sheet, pending, k)
                           /\ pending_updates' = IF k = Len(pending) THEN <<>> ELSE pending
                  ELSE /\ pending_updates' = pending
                       /\ UNCHANGED raw_sheet
    /\ UNCHANGED <<pc, validation_vars, extraction_vars, upload_vars>>

\* after the loop: the final flush, outside any try, and the return
OcrFinalFlush ==
    /\ pc = "ocr"
    /\ ocr_i >= Len(text_df)
    /\ \E k \in 0..Len(pending_updates) :
           /\ raw_sheet' = WriteFirst(raw_sheet, pending_updates, k)
           /\ pc' = IF k = Len(pending_updates) THEN "ocr_returned" ELSE "ocr_aborted"
    /\ UNCHANGED <<validation_vars, extraction_vars, upload_vars, text_df, ocr_i,
                   pending_updates, ocr_tried, ocr_done>>

NextOcr ==
    \/ OcrSkipsRow
    \/ OcrRaises
    \/ OcrFindsNoSheetRow
    \/ OcrQueuesUpdate
    \/ OcrFinalFlush

SpecOcr == InitOcr /\ [][NextOcr]_vars

----------------------------------------------------------------------------
(* upload_spreadsheet_in_batches (src/coa_automation.py)                    *)

\* the number of rows of the file, at most
MaxRows == 5

\* the parameter batch_size, at most (100 by default in the source)
MaxBatchSize == 3

\* NumBatches rounding down
MutNumBatchesFloor(n, size) == n \div size

\* math.ceil(len(df) / batch_size) for a positive batch_size
NumBatches(n, size) == IF n % size = 0 THEN n \div size ELSE (n \div size) + 1

\* df.iloc[start:end]: the rows of the positions start..end-1, counted from
\* 0, as far as the frame has them
Iloc(df, start, end) ==
    SubSeq(df, start + 1, IF end > Len(df) THEN Len(df) ELSE end)

\* the file holds n rows; batch_size is positive
InitUpload ==
    /\ pc = "upload"
    /\ \E n \in 0..MaxRows : upload_df = [i \in 1..n |-> i]
    /\ batch_size \in 1..MaxBatchSize
    /\ batch_idx = 0
    /\ batch_files = <<>>
    /\ ValidationIdle /\ ExtractionIdle /\ OcrIdle

\* an iteration whose _upload_single_batch returns
BatchUploaded ==
    /\ pc = "upload"
    /\ batch_idx < NumBatches(Len(upload_df), batch_size)
    /\ LET start == batch_idx * batch_size
           end == start + batch_size
       IN  batch_files' = Append(batch_files,
                                 [rows |-> Iloc(upload_df, start, end), uploaded |-> TRUE])
    /\ batch_idx' = batch_idx + 1
    /\ UNCHANGED <<pc, validation_vars, extraction_vars, ocr_vars, upload_df, batch_size>>

\* an iteration whose _upload_single_batch raises: the error is printed,
\* "continue"
BatchFails ==
    /\ pc = "upload"
    /\ batch_idx < NumBatches(Len(upload_df), batch_size)
    /\ LET start == batch_idx * batch_size
           end == start + batch_size
       IN  batch_files' = Append(batch_files,
                                 [rows |-> Iloc(upload_df, start, end), uploaded |-> FALSE])
    /\ batch_idx' = batch_idx + 1
    /\ UNCHANGED <<pc, validation_vars, extraction_vars, ocr_vars, upload_df, batch_size>>

\* range(num_batches) is exhausted
UploadReturns ==
    /\ pc = "upload"
    /\ batch_idx >= NumBatches(Len(upload_df), batch_size)
    /\ pc' = "upload_returned"
    /\ UNCHANGED <<validation_vars, extraction_vars, ocr_vars, upload_vars>>

NextUpload ==
    \/ BatchUploaded
    \/ BatchFails
    \/ UploadReturns

SpecUpload == InitUpload /\ [][NextUpload]_vars

----------------------------------------------------------------------------
(* Properties of the ranking, the filter and the export *)

\* C1: no entity code appears in two rows of the export.
C1_EntityCodeOnce ==
    \A i \in DOMAIN rm_clean : \A j \in DOMAIN rm_clean :
        rm_clean[i].pr_codenum = rm_clean[j].pr_codenum => i = j

\* the run ended with two assignments of one entity and one export row for it
C1_Witness ==
    /\ pc = "done"
    /\ \E i \in DOMAIN rm_final2 : \E j \in DOMAIN rm_final2 :
           /\ i # j
           /\ rm_final2[i].rm_id_final = rm_final2[j].rm_id_final
           /\ Cardinality({e \in DOMAIN rm_clean :
                  rm_clean[e].pr_codenum = rm_final2[i].rm_id_final}) = 1

\* the per-file ranking has been computed
Ranked == pc \notin {"step1", "step2", "step3", "step4", "step5"}

\* C2: of the candidate rows of a file exactly one has rank1 = 1, however
\* many there are; a sheet row has at most one winning candidate and at most
\* one assignment.
C2_OneWinnerPerFile ==
    Ranked =>
        /\ \A f \in FileNames(merged_extracted_df3) :
               /\ Cardinality({i \in RowsOfFile(merged_extracted_df3, f) :
                                  merged_extracted_df3[i].rank1 = 1}) = 1
               /\ Cardinality(RowsOfFile(merged_extracted_df4, f)) = 1
        /\ \A d \in DOMAIN extracted_df :
               /\ Cardinality(RowsOfFile(merged_extracted_df4,
                                         extracted_df[d].filename)) <= 1
               /\ Cardinality(RowsOfFile(rm_final2, extracted_df[d].filename)) <= 1

\* a file with four candidate rows, three of them of one similarity, has one
\* winner
C2_Witness ==
    /\ Ranked
    /\ \E f \in FileNames(merged_extracted_df3) :
           /\ Cardinality(RowsOfFile(merged_extracted_df3, f)) >= 4
           /\ Cardinality({i \in RowsOfFile(merged_extracted_df3, f) :
                  merged_extracted_df3[i].name_similarity
                      = merged_extracted_df3[i].max_name_similarity}) >= 3
           /\ Cardinality(RowsOfFile(merged_extracted_df4, f)) = 1

\* the condition of the quality filter on an assignment
Qualifies(r) ==
    /\ \/ r.max_name_similarity >= 50
       \/ r.name_similarity_final # None /\ Val(r.name_similarity_final) >= 80
    /\ r.coa_sufficient_content # None
    /\ Val(r.coa_sufficient_content) >= 8

\* C3: every row of the export comes from an assignment with (greatest
\* similarity of the file >= 50 or final similarity >= 80) and a sufficiency
\* score >= 8; an assignment with a missing or lower score is not exported.
C3_ExportPassesFilter ==
    /\ \A r \in DOMAIN rm_final2 : Qualifies(rm_final2[r])
    /\ \A e \in DOMAIN rm_clean :
           \E r \in DOMAIN rm_final2 :
               /\ rm_final2[r].rank = 1
               /\ ExportRow(rm_final2[r]) = rm_clean[e]
    /\ pc \in {"step7", "done"} =>
           \A r \in DOMAIN rm_final :
               ~Qualifies(rm_final[r]) => RowsOfFile(rm_final2, rm_final[r].filename) = {}

\* the run ended with an export; one assignment was dropped for its score
\* and one was kept on its final similarity alone
C3_Witness ==
    /\ pc = "done"
    /\ rm_clean # <<>>
    /\ \E r \in DOMAIN rm_final :
           /\ rm_final[r].max_name_similarity >= 50
           /\ ~Qualifies(rm_final[r])
    /\ \E r \in DOMAIN rm_final2 : rm_final2[r].max_name_similarity < 50

\* the rows of rm_final2 of the entity of row r
GroupOf(r) ==
    {j \in DOMAIN rm_final2 : rm_final2[j].rm_id_final = rm_final2[r].rm_id_final}

\* the place of an assignment in the order of arrival
Arrival(row) == CHOOSE i \in DOMAIN rm_final : rm_final[i].filename = row.filename

IsRow(w, i) ==
    \A k \in DOMAIN merged_extracted_df3[i] :
        merged_extracted_df4[w][k] = merged_extracted_df3[i][k]

\* row i is the first row of its file with the greatest similarity
FirstOfGreatest(i) ==
    LET rows == RowsOfFile(merged_extracted_df3, merged_extracted_df3[i].filename)
    IN  /\ \A j \in rows : merged_extracted_df3[j].name_similarity
                               <= merged_extracted_df3[i].name_similarity
        /\ \A j \in rows : j < i => merged_extracted_df3[j].name_similarity
                                        < merged_extracted_df3[i].name_similarity

\* C5: the winning row of a file has the greatest similarity of the file's
\* candidate rows, and it is the first of the candidate rows that have it.
C5_WinnerIsFirstOfGreatest ==
    Ranked =>
        \A w \in DOMAIN merged_extracted_df4 :
            \E i \in DOMAIN merged_extracted_df3 : FirstOfGreatest(i) /\ IsRow(w, i)

\* a file whose greatest similarity is shared by two rows with different
\* entities has the first of them as its winner
C5_Witness ==
    /\ Ranked
    /\ \E w \in DOMAIN merged_extracted_df4 :
       \E i \in DOMAIN merged_extracted_df3 :
       \E j \in DOMAIN merged_extracted_df3 :
           /\ FirstOfGreatest(i)
           /\ IsRow(w, i)
           /\ i < j
           /\ merged_extracted_df3[j].filename = merged_extracted_df3[i].filename
           /\ merged_extracted_df3[j].name_similarity = merged_extracted_df3[i].name_similarity
           /\ merged_extracted_df3[j].rm_code1 # merged_extracted_df3[i].rm_code1

----------------------------------------------------------------------------
(* Properties of the test-result extraction *)

\* the text of an entry's field; a missing field reads as the empty text
FieldText(v) == IF v.t = "str" THEN v.s ELSE <<>>

\* t is a number as the documents write it: digits, at most one dot, and a
\* digit at the end
IsNumberText(t) ==
    /\ t # <<>>
    /\ t[Len(t)] \in Digits
    /\ \A i \in DOMAIN t : t[i] \in Digits \cup {"."}
    /\ Cardinality({i \in DOMAIN t : t[i] = "."}) <= 1

\* the spans <<i, j>> of s that hold a number
NumberSpans(s) ==
    UNION {{<<i, j>> : j \in {k \in i..Len(s) : IsNumberText(SubSeq(s, i, k))}} :
              i \in {k \in DOMAIN s : s[k] \in Digits \cup {"."}}}

\* the span ends right before "cfu", white space allowed in between
BeforeCfu(s, sp) ==
    \E k \in sp[2]..Len(s) :
        /\ \A j \in (sp[2] + 1)..k : s[j] \in WhiteSpace
        /\ k + 3 <= Len(s)
        /\ Lower(SubSeq(s, k + 1, k + 3)) = <<"c", "f", "u">>

\* the leftmost, and there the longest, of a set of spans, as a value
FirstOf(s, spans) ==
    IF spans = {} THEN None
    ELSE LET sp == CHOOSE x \in spans :
                       \A y \in spans :
                           \/ x[1] < y[1]
                           \/ x[1] = y[1] /\ x[2] >= y[2]
         IN  Some(Float(SubSeq(s, sp[1], sp[2])))

\* the first number found in a text
FirstNumberIn(s) == FirstOf(s, NumberSpans(s))

\* the first number of a text that stands directly before "cfu"
FirstCfuNumberIn(s) == FirstOf(s, {sp \in NumberSpans(s) : BeforeCfu(s, sp)})

HasNegativeMarker(s) == WordSearch(NegativeMarkers, Lower(s))

\* the entries of a sheet row's test_results list
EntriesOf(row) ==
    IF row.json_values.kind = "object" /\ row.json_values.test_results.t = "list"
    THEN row.json_values.test_results.items
    ELSE <<>>

AllPatterns == CHEM_PATTERNS @@ MICRO_PATTERNS

LabelMatches(e, key) ==
    e.test.t = "str" /\ WordSearch(AllPatterns[key], Lower(e.test.s))

\* position of the first entry whose label matches the category, 0 if none
FirstMatching(items, key) ==
    IF \E i \in DOMAIN items : LabelMatches(items[i], key)
    THEN CHOOSE i \in DOMAIN items :
             /\ LabelMatches(items[i], key)
             /\ \A j \in 1..(i - 1) : ~LabelMatches(items[j], key)
    ELSE 0

\* every label up to position i is a text (or missing)
TextLabelsUpTo(items, i) == \A j \in 1..i : items[j].test.t # "null"

\* the result and the limit of an entry are texts (or missing)
TextFields(e) == e.result.t # "null" /\ e.limit.t # "null"

\* the rows on which category key is decided by an entry with text fields,
\* as <<row index, entry index>>
Decided(key) ==
    {d \in (DOMAIN extracted_df4) \X (1..2) :
        LET items == EntriesOf(extracted_df4[d[1]])
        IN  /\ d[2] = FirstMatching(items, key)
            /\ TextLabelsUpTo(items, d[2])
            /\ TextFields(items[d[2]])}

EntryAt(d) == EntriesOf(extracted_df4[d[1]])[d[2]]
ValueAt(d, key) == extracted_df4[d[1]].tests[key]

\* C6: for a chemical category the value is the first number of the result;
\* failing that the first number of the limit; failing that 0.0 when the
\* result holds a negative marker; failing that null.
C6_ChemPriorityOrder ==
    \A key \in Range(ChemFields) : \A d \in Decided(key) :
        LET result == FieldText(EntryAt(d).result)
            limit == FieldText(EntryAt(d).limit)
        IN  ValueAt(d, key) =
                IF NotNone(FirstNumberIn(result)) THEN FirstNumberIn(result)
                ELSE IF NotNone(FirstNumberIn(limit)) THEN FirstNumberIn(limit)
                ELSE IF HasNegativeMarker(result) THEN Some(Zero)
                ELSE None

\* a lead entry whose result and limit hold different numbers got the
\* number of the result
C6_Witness ==
    \E d \in Decided("lead_ppm") :
        LET result == FieldText(EntryAt(d).result)
            limit == FieldText(EntryAt(d).limit)
        IN  /\ NotNone(FirstNumberIn(result))
            /\ NotNone(FirstNumberIn(limit))
            /\ FirstNumberIn(result) # FirstNumberIn(limit)
            /\ ValueAt(d, "lead_ppm") = FirstNumberIn(result)

\* C7 as stated: a result of "Not Detected" gives 0.0 for every category,
\* whatever the other fields of the entry contain.
C7_NotDetectedAlwaysZero ==
    \A key \in DOMAIN AllPatterns : \A d \in Decided(key) :
        EntryAt(d).result = Str(T_Not_Detected) => ValueAt(d, key) = Some(Zero)

\* C7: a result of "Not Detected" gives 0.0 for a microbial category; for a
\* chemical category it gives the first number of the limit when the limit
\* holds one, and 0.0 otherwise.
C7_NotDetectedZeroUnlessLimit ==
    \A key \in DOMAIN AllPatterns : \A d \in Decided(key) :
        EntryAt(d).result = Str(T_Not_Detected) =>
            LET limit == FieldText(EntryAt(d).limit)
            IN  ValueAt(d, key) =
                    IF key \in DOMAIN CHEM_PATTERNS /\ NotNone(FirstNumberIn(limit))
                    THEN FirstNumberIn(limit)
                    ELSE Some(Zero)

\* a lead entry "Not Detected" with a limit of 5 ppm got 5.0
C7_Witness ==
    \E d \in Decided("lead_ppm") :
        /\ EntryAt(d).result = Str(T_Not_Detected)
        /\ EntryAt(d).limit = Str(T_5_ppm)
        /\ ValueAt(d, "lead_ppm") = Some([m |-> 5, e |-> 0])

\* C8 as stated: for a microbial category a number directly followed by cfu
\* comes first, and after it the order of the chemical categories applies.
C8_MicroFallsBackLikeChem ==
    \A key \in DOMAIN MICRO_PATTERNS : \A d \in Decided(key) :
        LET result == FieldText(EntryAt(d).result)
            limit == FieldText(EntryAt(d).limit)
        IN  ValueAt(d, key) =
                IF NotNone(FirstCfuNumberIn(result)) THEN FirstCfuNumberIn(result)
                ELSE IF NotNone(FirstNumberIn(result)) THEN FirstNumberIn(result)
                ELSE IF NotNone(FirstNumberIn(limit)) THEN FirstNumberIn(limit)
                ELSE IF HasNegativeMarker(result) THEN Some(Zero)
                ELSE None

\* C8: for a microbial category the value is the first number of the result
\* directly followed by cfu; failing that 0.0 when the result holds a
\* negative marker; failing that null.  A number without cfu and the limit
\* are not read.
C8_MicroCfuThenMarker ==
    \A key \in DOMAIN MICRO_PATTERNS : \A d \in Decided(key) :
        LET result == FieldText(EntryAt(d).result)
        IN  ValueAt(d, key) =
                IF NotNone(FirstCfuNumberIn(result)) THEN FirstCfuNumberIn(result)
                ELSE IF HasNegativeMarker(result) THEN Some(Zero)
                ELSE None

\* an E. coli entry whose result holds a number, but none before cfu, and no
\* negative marker got null
C8_Witness ==
    \E d \in Decided("e_coli") :
        LET result == FieldText(EntryAt(d).result)
        IN  /\ NotNone(FirstNumberIn(result))
            /\ IsNone(FirstCfuNumberIn(result))
            /\ ~HasNegativeMarker(result)
            /\ ValueAt(d, "e_coli") = None

\* the value of category key for a row with only entry i of its
\* test_results list
ValueOfEntryAlone(row, i, key) ==
    LET cell == [row.json_values EXCEPT
                     !.test_results = Tests(<<EntriesOf(row)[i]>>)]
    IN  IF key \in DOMAIN CHEM_PATTERNS THEN extract_field_chem(cell, key)
        ELSE extract_field_micro(cell, key)

\* C9: the value of a category is the one its first matching entry gives on
\* its own; a later matching entry is never used, not even when the first
\* one is unresolved.
C9_OnlyFirstMatchingEntry ==
    \A key \in DOMAIN AllPatterns : \A r \in DOMAIN extracted_df4 :
        LET items == EntriesOf(extracted_df4[r])
            i == FirstMatching(items, key)
        IN  (i # 0 /\ TextLabelsUpTo(items, i)) =>
                extracted_df4[r].tests[key] =
                    ValueOfEntryAlone(extracted_df4[r], i, key)

\* a row with two lead entries, the first unresolved and the second holding
\* a number, got null for lead
C9_Witness ==
    \E r \in DOMAIN extracted_df4 :
        LET items == EntriesOf(extracted_df4[r])
        IN  /\ Len(items) = 2
            /\ LabelMatches(items[1], "lead_ppm")
            /\ LabelMatches(items[2], "lead_ppm")
            /\ ValueOfEntryAlone(extracted_df4[r], 2, "lead_ppm") # None
            /\ extracted_df4[r].tests["lead_ppm"] = None

----------------------------------------------------------------------------
(* Properties of the fallback match *)

\* the fallback match has been attached
Attached == pc \notin {"step1", "step2", "step3", "step4"}

\* a lookup by lot key or by file-name key found a registry row
LookupSucceeded(r) == r.rm_code1 # None \/ r.rm_code2 # None

\* the file carries a fallback candidate
HasFallback(f) ==
    \E i \in RowsOfFile(merged_extracted_df3, f) :
        merged_extracted_df3[i].name_similarity3 # None

\* the fallback candidates the rows of a file carry
FallbacksOf(f) ==
    {<<merged_extracted_df3[i].rm_code3, merged_extracted_df3[i].rm_name3,
       merged_extracted_df3[i].name_similarity3>> :
         i \in RowsOfFile(merged_extracted_df3, f)}

\* C10 as stated: a file has a fallback candidate if and only if no lookup
\* succeeded on any of its candidate rows, and then it has exactly one.
C10_FallbackIffNoLookup ==
    Attached =>
        \A f \in FileNames(merged_extracted_df3) :
            /\ HasFallback(f) <=>
                   \A i \in RowsOfFile(merged_extracted_df3, f) :
                       ~LookupSucceeded(merged_extracted_df3[i])
            /\ HasFallback(f) => Cardinality(FallbacksOf(f)) = 1

\* C10: a file has a fallback candidate if and only if the greatest
\* similarity of its exact matches is 0, which is so when no lookup
\* succeeded and also when every registry row found shares nothing with the
\* product name; such a file has exactly one fallback candidate, on all of
\* its rows.
C10_FallbackIffZeroSimilarity ==
    Attached =>
        \A f \in FileNames(merged_extracted_df3) :
            LET rows == RowsOfFile(merged_extracted_df3, f)
            IN  /\ HasFallback(f) <=>
                       \A i \in rows :
                           /\ merged_extracted_df3[i].name_similarity1 = 0
                           /\ merged_extracted_df3[i].name_similarity2 = 0
                /\ (\A i \in rows : ~LookupSucceeded(merged_extracted_df3[i]))
                       => HasFallback(f)
                /\ HasFallback(f) =>
                       /\ Cardinality(FallbacksOf(f)) = 1
                       /\ \A i \in rows :
                              merged_extracted_df3[i].name_similarity3 # None

\* a file whose lookup found a registry row of similarity 0 carries a
\* fallback candidate, next to a file of low similarity that carries none
C10_Witness ==
    /\ Attached
    /\ \E f \in FileNames(merged_extracted_df3) :
           /\ HasFallback(f)
           /\ \E i \in RowsOfFile(merged_extracted_df3, f) :
                  LookupSucceeded(merged_extracted_df3[i])
    /\ \E f \in FileNames(merged_extracted_df3) :
           /\ ~HasFallback(f)
           /\ \A i \in RowsOfFile(merged_extracted_df3, f) :
                  /\ merged_extracted_df3[i].name_similarity > 0
                  /\ merged_extracted_df3[i].name_similarity < 50

----------------------------------------------------------------------------
(* Properties of find_best_match *)

\* the similarity of the product name of the call and catalog row i
ScoreOf(i) == token_set_ratio(fbm_name, rm_df[i].description)

\* C11: find_best_match returns the catalog row of the greatest similarity to
\* the product name, the first-listed one among equals; for an empty catalog
\* it returns a null code, a null description and the score 0.
C11_BestMatchIsFirstGreatest ==
    pc = "returned" =>
        LET r == Val(fbm_result)
        IN  IF rm_df = <<>>
            THEN r = [matched_part_number |-> None,
                      matched_description |-> None,
                      similarity_score |-> 0]
            ELSE \E i \in DOMAIN rm_df :
                    /\ \A j \in DOMAIN rm_df : ScoreOf(j) <= ScoreOf(i)
                    /\ \A j \in 1..(i - 1) : ScoreOf(j) < ScoreOf(i)
                    /\ r = [matched_part_number |-> Some(rm_df[i].part_number),
                            matched_description |-> Some(rm_df[i].description),
                            similarity_score |-> ScoreOf(i)]

\* two catalog rows with different codes share the greatest, nonzero score
\* and the call returned the first of them
C11_Witness ==
    /\ pc = "returned"
    /\ \E i \in DOMAIN rm_df : \E j \in DOMAIN rm_df :
           /\ i < j
           /\ ScoreOf(i) = ScoreOf(j)
           /\ ScoreOf(i) > 0
           /\ \A k \in DOMAIN rm_df : ScoreOf(k) <= ScoreOf(i)
           /\ rm_df[i].part_number # rm_df[j].part_number
           /\ Val(fbm_result).matched_part_number = Some(rm_df[i].part_number)

----------------------------------------------------------------------------
(* Properties of the registry joins and the candidate rows *)

\* the registry rows that carry a key, by their position
HitsOf(key) == {i \in DOMAIN order_df : OrderKey(order_df[i]) = key}

\* the similarity of the product name of row w and registry row i
SimilarityTo(w, i) ==
    token_set_ratio(w.clean_product_name, clean_text(order_df[i].description))

\* winner w belongs to a file all of whose candidate rows carry one lot key,
\* which registry rows of different entities share, and whose file-name key
\* is that key or finds nothing; an exact match of it has a similarity
SharedKeyCase(w) ==
    /\ \A i \in RowsOfFile(merged_extracted_df3, w.filename) :
           /\ merged_extracted_df3[i].lot_number_clean = w.lot_number_clean
           /\ \/ merged_extracted_df3[i].m_number_clean = w.lot_number_clean
              \/ HitsOf(merged_extracted_df3[i].m_number_clean) = {}
    /\ Cardinality({order_df[i].part_number : i \in HitsOf(w.lot_number_clean)}) >= 2
    /\ w.max_name_similarity > 0

\* the first registry row that carries the key
FirstHit(key) == CHOOSE i \in HitsOf(key) : \A j \in HitsOf(key) : i <= j

Exploded == pc # "step1" /\ \A i \in DOMAIN extracted_df :
                                SafeParseIsDict(extracted_df[i].json_values)

\* the number of lot candidates of an envelope: its lot values, nulls not
\* counted, and one sentinel when it has none
LotCount(cell) ==
    LET v == LotNumbersOf(cell)
        n == IF v.t = "str" THEN 1
             ELSE Cardinality({i \in DOMAIN v.items : v.items[i].t # "None"})
    IN  IF n = 0 THEN 1 ELSE n

\* the number of file-name candidates: the distinct M-numbers of the name,
\* and one sentinel when it has none
TokenCount(filename_clean) ==
    LET tokens == Range(FindAllMFrom(StripNonWord(filename_clean), 1))
    IN  IF tokens = {} THEN 1 ELSE Cardinality(tokens)

\* C13: before the registry joins a sheet row has (number of lot candidates)
\* x (number of file-name candidates) candidate rows.
C13_RowsAreLotsTimesTokens ==
    Exploded =>
        \A d \in DOMAIN extracted_df :
            Cardinality(RowsOfFile(extracted_df3, extracted_df[d].filename))
                = LotCount(extracted_df[d].json_values)
                  * TokenCount(extracted_df[d].filename_clean)

\* a sheet row with two lot numbers and one M-number in its file name
TwoLotsOneToken(doc) ==
    LET v == LotNumbersOf(doc.json_values)
    IN  /\ v.t = "list"
        /\ Len(v.items) = 2
        /\ \A i \in DOMAIN v.items : v.items[i].t = "str"
        /\ Cardinality(Range(FindAllMFrom(StripNonWord(doc.filename_clean), 1))) = 1

\* C14 as stated: a document with two lot numbers and one file-name M-number
\* has 3 candidate rows.
C14_ThreeCandidateRows ==
    Exploded =>
        \A d \in DOMAIN extracted_df :
            TwoLotsOneToken(extracted_df[d]) =>
                Cardinality(RowsOfFile(extracted_df3, extracted_df[d].filename)) = 3

\* C14: a document with two lot numbers and one file-name M-number has 2
\* candidate rows (2 x 1), and its winner is the single row of the greatest
\* similarity among the rows the joins make of them.
C14_TwoCandidateRows ==
    Exploded =>
        \A d \in DOMAIN extracted_df :
            LET f == extracted_df[d].filename
            IN  TwoLotsOneToken(extracted_df[d]) =>
                    /\ Cardinality(RowsOfFile(extracted_df3, f)) = 2
                    /\ (Ranked /\ RowsOfFile(merged_extracted_df3, f) # {}) =>
                           /\ Cardinality(RowsOfFile(merged_extracted_df4, f)) = 1
                           /\ \A w \in RowsOfFile(merged_extracted_df4, f) :
                              \A i \in RowsOfFile(merged_extracted_df3, f) :
                                  merged_extracted_df3[i].name_similarity
                                      <= merged_extracted_df4[w].name_similarity

\* such a document has been ranked: its winner comes from the second lot
\* number, whose registry row fits the product name best
C14_Witness ==
    /\ Ranked
    /\ \E d \in DOMAIN extracted_df :
           /\ TwoLotsOneToken(extracted_df[d])
           /\ \E w \in RowsOfFile(merged_extracted_df4, extracted_df[d].filename) :
                  /\ merged_extracted_df4[w].lot_number = PyStr(T_M1001)
                  /\ merged_extracted_df4[w].name_similarity = 91
                  /\ Cardinality(RowsOfFile(merged_extracted_df3,
                                            extracted_df[d].filename)) = 3

----------------------------------------------------------------------------
(* Properties of the confidence values *)

\* a confidence: a number of 0..100
IsConfidence(x) == x \in 0..100

\* an optional confidence: missing, or a number of 0..100
IsConfidenceOrNull(o) == o = None \/ IsConfidence(Val(o))

----------------------------------------------------------------------------
(* Properties of the error handling *)

\* the sheet holds a cell that is no JSON object: text that does not parse,
\* or text that parses to a list or a scalar
HasMalformedCell ==
    \E i \in DOMAIN extracted_df : extracted_df[i].json_values.kind # "object"

\* C16: a document whose envelope is malformed never aborts the run: with
\* such a document in the sheet, STEP 1 (the step reading the envelope of
\* every document) hands its candidate rows on to STEP 2.
C16_MalformedNeverAborts ==
    [][HasMalformedCell /\ pc = "step1" => pc' # "aborted"]_vars

----------------------------------------------------------------------------
(* Properties of the columns of the export *)

\* the columns holding a confidence
ConfidenceColumns ==
    {"name_similarity1", "name_similarity2", "name_similarity", "name_similarity3",
     "max_name_similarity", "name_similarity_final"}

\* the columns of the entity, of the dates and of the test values
EntityAndTestColumns ==
    {"pr_codenum", "rm_name_final", "manufacture_date", "expiry_date",
     "u_Arsenic_PPM", "u_Cadmium_PPM", "u_Chromium", "u_Lead_PPM", "u_Mercury_PPM",
     "u_Total_Plate_Count", "u_Yeast_and_Mold", "u_Escherichia_Coli", "u_Salmonella",
     "u_Staphylococcus_Aureus"}

----------------------------------------------------------------------------
(* Properties of the key normalization *)

IsLowerAlnum(c) == c \in Digits \cup Range(LowerCase)

\* a text lowercased, its letters and digits only
AlnumLower(s) == SelectSeq(Lower(s), IsLowerAlnum)

\* C19: the key normalization of STEP 3 never fails, and the key it gives
\* for a text is the text lowercased with every character that is no letter
\* and no digit removed (the empty key for the empty text).
C19_KeyNormalizationTotal ==
    [][pc = "step3" =>
           /\ pc' # "aborted"
           /\ \A i \in DOMAIN merged_extracted_df2' :
                  LET r == merged_extracted_df2'[i]
                  IN  /\ r.lot_number.t = "str" =>
                             r.lot_number_clean = AlnumLower(r.lot_number.s)
                      /\ r.m_number.t = "str" =>
                             r.m_number_clean = AlnumLower(r.m_number.s)]_vars

----------------------------------------------------------------------------
(* Properties of a low exact match *)

\* the winning row w belongs to a file whose best exact-match similarity is
\* low but not zero
LowExactMatch(w) == w.max_name_similarity \in 1..49

\* C20: a document whose best exact-match similarity lies in 1..49 gets no
\* fallback candidate: its assignment is the registry row of that
\* similarity, its confidence is that similarity, and it is absent from the
\* filtered assignments the export is made of.
C20_LowExactMatchSuppressesFallback ==
    \A i \in DOMAIN merged_extracted_df4 :
        LET w == merged_extracted_df4[i]
        IN  LowExactMatch(w) =>
                /\ w.name_similarity3 = None
                /\ w.rm_code3 = None
                /\ w.name_similarity_final = Some(w.max_name_similarity)
                /\ w.rm_id_final # None
                /\ w.rm_id_final \in {w.rm_code1, w.rm_code2}
                /\ \A j \in DOMAIN rm_final2 : rm_final2[j].filename # w.filename
                /\ pc = "done" => Len(rm_clean) <= Len(rm_final2)

\* the run has exported a row, and it held a document of low exact-match
\* similarity for whose product name the catalog has an entry of 80 or more
C20_Witness ==
    /\ pc = "done"
    /\ rm_clean # <<>>
    /\ \E i \in DOMAIN merged_extracted_df4 :
           /\ LowExactMatch(merged_extracted_df4[i])
           /\ find_best_match(merged_extracted_df4[i].clean_product_name,
                              rm_df).similarity_score >= 80

----------------------------------------------------------------------------
(* Properties of the sentinel keys *)

\* C21: every document of the extracted data yields at least one candidate
\* row, whatever its envelope and its file name hold.
C21_NoDocumentLost ==
    Exploded =>
        \A d \in DOMAIN extracted_df :
            RowsOfFile(extracted_df3, extracted_df[d].filename) # {}

\* the lot candidate of a candidate row is missing: no M-number could be
\* extracted from the lot value, or the envelope has none
LotKeyMissing(r) == r.lot_number.t # "str"

\* the file-name candidate of a candidate row is the sentinel
FileKeyIsSentinel(r) == r.m_number.t = "int"

\* C22: a missing lot candidate and a sentinel file-name candidate match no
\* registry row, whatever the lot labels of the registry are.
C22_SentinelNeverMatches ==
    \A i \in DOMAIN merged_extracted_df2 :
        LET r == merged_extracted_df2[i]
        IN  /\ LotKeyMissing(r) => r.rm_code1 = None
            /\ FileKeyIsSentinel(r) => r.rm_code2 = None

----------------------------------------------------------------------------
(* Properties of the order of filter and ranking *)

\* the assignments that pass the quality filter
Qualifying == {r \in DOMAIN rm_final : Qualifies(rm_final[r])}

\* C23: the quality filter comes before the per-entity ranking: the entity
\* codes of the export are those of the assignments passing the filter, and
\* every export row is built from such an assignment.
C23_FilterBeforeRanking ==
    pc = "done" =>
        /\ {rm_clean[e].pr_codenum : e \in DOMAIN rm_clean}
               = {rm_final[r].rm_id_final : r \in Qualifying}
        /\ \A e \in DOMAIN rm_clean :
               \E r \in Qualifying :
                   /\ rm_clean[e].pr_codenum = rm_final[r].rm_id_final
                   /\ rm_clean[e].manufacture_date = rm_final[r].manufacture_date
                   /\ rm_clean[e].expiry_date = rm_final[r].expiry_date

\* an entity has an assignment that fails the filter and is manufactured
\* later than a passing assignment of the same entity; the export holds the
\* dates of the passing one
C23_Witness ==
    /\ pc = "done"
    /\ \E r \in Qualifying : \E q \in DOMAIN rm_final \ Qualifying :
           /\ rm_final[q].rm_id_final = rm_final[r].rm_id_final
           /\ rm_final[q].manufacture_date # None
           /\ rm_final[r].manufacture_date # None
           /\ Val(rm_final[q].manufacture_date) > Val(rm_final[r].manufacture_date)
           /\ \E e \in DOMAIN rm_clean :
                  /\ rm_clean[e].pr_codenum = rm_final[r].rm_id_final
                  /\ rm_clean[e].manufacture_date = rm_final[r].manufacture_date

----------------------------------------------------------------------------
(* Properties of the final entity *)

\* the origin of the final entity of a winning row: the lot match when its
\* similarity is the row's and the file's greatest similarity is not 0,
\* else the file-name match under the same condition, else the fallback
OriginOf(w) ==
    IF w.max_name_similarity # 0 /\ w.name_similarity1 = w.name_similarity THEN "lot"
    ELSE IF w.max_name_similarity # 0 /\ w.name_similarity2 = w.name_similarity THEN "file"
    ELSE "fallback"

\* code, description and confidence of the match of one origin
MatchOf(w, origin) ==
    IF origin = "lot" THEN <<w.rm_code1, w.rm_name1, Some(w.name_similarity1)>>
    ELSE IF origin = "file" THEN <<w.rm_code2, w.rm_name2, Some(w.name_similarity2)>>
    ELSE <<w.rm_code3, w.rm_name3, w.name_similarity3>>

\* C24: final code, description and confidence of a winning row are those
\* of one origin, chosen in the order lot, file name, fallback; the
\* fallback is the origin exactly when the greatest similarity of the
\* document is 0.
C24_FinalEntityByOrigin ==
    \A i \in DOMAIN merged_extracted_df4 :
        LET w == merged_extracted_df4[i]
        IN  /\ <<w.rm_id_final, w.rm_name_final, w.name_similarity_final>>
                   = MatchOf(w, OriginOf(w))
            /\ OriginOf(w) = "fallback" <=> w.max_name_similarity = 0
            /\ OriginOf(w) # "fallback" => w.rm_id_final # None

\* a winning row whose lot match and file-name match are different entities
\* of equal similarity: the final entity is the one of the lot match
C24_Witness ==
    \E i \in DOMAIN merged_extracted_df4 :
        LET w == merged_extracted_df4[i]
        IN  /\ w.name_similarity1 = w.name_similarity2
            /\ w.name_similarity1 > 0
            /\ w.rm_code1 # w.rm_code2
            /\ w.rm_id_final = w.rm_code1

----------------------------------------------------------------------------
(* Properties of entries with a missing result *)

\* the rows on which category key is decided by an entry without a result
\* (the key is missing, or its value is null) whose limit holds a number
DecidedWithoutResult(key) ==
    {d \in (DOMAIN extracted_df4) \X (1..2) :
        LET items == EntriesOf(extracted_df4[d[1]])
        IN  /\ d[2] = FirstMatching(items, key)
            /\ TextLabelsUpTo(items, d[2])
            /\ items[d[2]].result.t \in {"absent", "null"}
            /\ items[d[2]].limit.t = "str"
            /\ NotNone(FirstNumberIn(items[d[2]].limit.s))}

\* C25: for a chemical category whose first matching entry has no result
\* and a limit with a number, the value is the first number of the limit.
C25_MissingResultReadsLimit ==
    \A key \in Range(ChemFields) : \A d \in DecidedWithoutResult(key) :
        ValueAt(d, key) = FirstNumberIn(EntryAt(d).limit.s)

----------------------------------------------------------------------------
(* Properties of process_extraction *)

\* the texts update_cell may have written in this run
NewCells == {FinalJson(o) : o \in GptOutputs}

\* the files for which the model produced a result
GptProduced == gpt_sent \ gpt_failed

\* the json_values cell of the row is empty: NaN, or white space at most
CellIsEmpty(row) ==
    row.json_values = None \/ StripCell(Val(row.json_values)) = ""

\* C26: when process_extraction returns, no entry is left in the pending
\* batch: every result the model produced has been handed to update_cell
\* and, unless that call raised, stands in the sheet.
C26_NothingLeftPending ==
    pc = "extraction_returned" =>
        /\ batch_updates = <<>>
        /\ \A f \in GptProduced \ upload_failed : extracted_sheet[f] \in NewCells

\* C27: a file is sent to the model only if its json_values cell is empty;
\* a cell that is not empty is never overwritten; a file on which the model
\* call raised keeps its empty cell; and by the return every file with an
\* empty cell (and a file name that is found) has been sent to the model.
C27_OnlyEmptyCellsExtracted ==
    /\ \A f \in gpt_sent : CellIsEmpty(ex_text_df[f])
    /\ \A f \in DOMAIN ex_text_df :
           ~CellIsEmpty(ex_text_df[f]) =>
               extracted_sheet[f] = Val(ex_text_df[f].json_values)
    /\ \A f \in gpt_failed :
           /\ extracted_sheet[f] \notin NewCells
           /\ StripCell(extracted_sheet[f]) = ""
    /\ pc = "extraction_returned" =>
           \A f \in DOMAIN ex_text_df :
               CellIsEmpty(ex_text_df[f]) /\ ~ex_text_df[f].padded => f \in gpt_sent

\* the run is over: it held a file with a result, which stands as it was; the
\* model call raised on one file, and a later file was extracted and written
C27_Witness ==
    /\ pc = "extraction_returned"
    /\ \E h \in DOMAIN ex_text_df :
           /\ ex_text_df[h].json_values = Some("{old}")
           /\ extracted_sheet[h] = "{old}"
    /\ \E f \in gpt_failed : \E g \in GptProduced :
           /\ g > f
           /\ extracted_sheet[g] \in NewCells

----------------------------------------------------------------------------
(* Properties of process_ocr *)

\* the raw_text of the row was empty when the loop began
WasEmpty(r) == r \in ocr_done \/ RawTextIsEmpty(text_df[r])

\* C28: every row of the combined table whose raw_text is empty and whose
\* file the ZIP archive holds is OCR-processed during the run, at whatever
\* position of the table and in whatever directory of the archive.
C28_EveryDueRowProcessed ==
    pc = "ocr_returned" =>
        \A r \in DOMAIN text_df :
            WasEmpty(r) /\ text_df[r].zip # "none" => r \in ocr_tried

\* C29: when process_ocr returns, the text of every file it OCR-processed
\* stands in that file's row of the sheet, files that were new in this run
\* included.
C29_EveryTextWritten ==
    pc = "ocr_returned" =>
        \A r \in ocr_done :
            /\ r \in DOMAIN raw_sheet
            /\ raw_sheet[r] = SafeText(Val(text_df[r].raw_text))

----------------------------------------------------------------------------
(* Properties of upload_spreadsheet_in_batches *)

\* the rows of the batches attempted so far, one after the other
AttemptedRows == Flatten([k \in DOMAIN batch_files |-> batch_files[k].rows])

\* the least number of batches of at most size rows that hold n rows
CeilingOf(n, size) ==
    CHOOSE k \in 0..n : k * size >= n /\ \A j \in 0..(k - 1) : j * size < n

\* C30: the n rows are split into ceil(n / batch_size) consecutive batches
\* of at most batch_size rows, every row in exactly one batch and in file
\* order; the batches are attempted in order, and a failed batch does not
\* keep the later ones from being attempted.
C30_BatchesPartitionRows ==
    /\ \A k \in DOMAIN batch_files :
           /\ Len(batch_files[k].rows) \in 1..batch_size
           /\ batch_files[k].rows[1] = (k - 1) * batch_size + 1
    /\ AttemptedRows = SubSeq(upload_df, 1, Len(AttemptedRows))
    /\ pc = "upload_returned" =>
           /\ Len(batch_files) = CeilingOf(Len(upload_df), batch_size)
           /\ AttemptedRows = upload_df

\* the run is over: a batch failed, a later batch was uploaded, and the
\* last batch is shorter than batch_size
C30_Witness ==
    /\ pc = "upload_returned"
    /\ \E j, k \in DOMAIN batch_files :
           /\ j < k
           /\ ~batch_files[j].uploaded
           /\ batch_files[k].uploaded
    /\ Len(batch_files) >= 3
    /\ Len(batch_files[Len(batch_files)].rows) < batch_size

====
